---- MODULE Spec2Model ----
(***************************************************************************)
(* Model of the outbound dialer of vocalQ (backend/app/services/           *)
(* outbound_service.py), its startup hook (backend/app/main.py) and the    *)
(* carrier, Record Store and tunnel-discovery collaborators it talks to.   *)
(*                                                                         *)
(* The dialer runs on one asyncio event loop.  The Record Store and the    *)
(* carrier client are called synchronously, so the code between two awaits *)
(* is one atomic step; every action below is such a step.                  *)
(*                                                                         *)
(* Time is counted in units of the retry delay (timedelta(minutes=5)).     *)
(*                                                                         *)
(* The second half of the module models the realtime call bridge           *)
(* (backend/app/api/endpoints/websocket.py) with its two AI session        *)
(* adapters (backend/app/services/gemini_realtime_service.py and           *)
(* openai_realtime_service.py): one websocket_endpoint coroutine, the      *)
(* connect() task it creates, the adapter's receive_loop task and the      *)
(* executor thread that inserts the call record.                           *)
(***************************************************************************)
EXTENDS Integers, Sequences, FiniteSets, TLC

\* ------------------------------------------------------------------ bounds
MaxItems == 2        \* queue items ever inserted
MaxWorkers == 2      \* process_queue tasks ever created
MaxFaults == 1       \* steps of a run in which the Record Store or the carrier client raises
MaxEpisodes == 2     \* speech starts the local detector reports during one call
MaxTurns == 2        \* transcript turns the adapter delivers during one call
MaxClock == 3        \* clock readings of one call, in half seconds
MaxToolCalls == 2    \* tool-call requests the adapter delivers during one call
MaxFrames == 3       \* audio frames followed in each direction of one call
MaxEvents == 3       \* events and commands given to both adapter variants side by side

\* --------------------------------------------------------- program constants
DefaultMaxAttempts == 3    \* prospect.get("max_attempts", 3)
RetryDelay == 1            \* timedelta(minutes=5), the unit of time

NoTime == -1               \* next_retry_at of a row that never had one (NULL)
NoSid == 0                 \* call_sid of a row / service that never had one (None)

Numbers == {"", "+1555"}   \* phone numbers a caller may submit ("" is a blank number)
Workers == 1..MaxWorkers

\* The carrier names a call by an opaque sid.  The model takes the sid from the row
\* and the attempt the call is placed for, which no two calls share.
Sids == 1..(MaxItems * DefaultMaxAttempts)
Sid(i, attempt_count) == (i - 1) * DefaultMaxAttempts + attempt_count + 1

\* call.status values that end wait_for_call_completion
TerminalCarrierStates == {"completed", "busy", "failed", "no-answer", "canceled"}
\* outcomes the modelled carrier produces
CarrierOutcomes == {"completed", "no-answer"}

VARIABLES
    contacts,          \* Record Store table contacts: contact id -> phone number
    queue,             \* Record Store table call_queue: queue id -> row
    is_running,        \* OutboundService.is_running
    current_call_sid,  \* OutboundService.current_call_sid
    twilio_number,     \* settings.TWILIO_PHONE_NUMBER is set
    column_default,    \* default of the column call_queue.max_attempts
    faults,            \* steps in which the Record Store or the carrier client has raised
    observe,           \* hist and log, and a call's audio frames, are followed in this run
    pc,                \* where each process_queue task stands
    prospect,          \* each task's local `prospect` (the row as selected)
    sid,               \* each task's local call.sid
    final_status,      \* each task's local final_status
    carrier,           \* the carrier's calls: sid -> status
    now,               \* datetime.now(timezone.utc)
    hist,              \* per queue id, the statuses written to the row, in order
    log                \* per queue id, what happened to its dials, in order

\* one call on /stream: websocket_endpoint and the adapter it constructs
VARIABLES
    variant,           \* the adapter class constructed: "gemini" or "openai"
    hpc,               \* where the websocket_endpoint coroutine stands
    websocket,         \* the telephony transport: "open", "gone" (peer left), "closed"
    stream_sid,        \* realtime_service.stream_sid is set (not None)
    vad_active,        \* websocket_endpoint's local vad_active
    ws,                \* realtime_service.ws: "none", "open", "closed"
    is_connected,      \* realtime_service.is_connected
    connection_event,  \* realtime_service._connection_event is set
    transcript,        \* realtime_service.transcript
    ipc,               \* where init_task, running connect(), stands
    rpc,               \* where the receive_loop task stands
    lpc,               \* where log_call_start_sync stands in the executor
    start_ts,          \* log_call_start_sync's local start_ts
    end_time,          \* websocket_endpoint's local end_time
    duration,          \* websocket_endpoint's local duration
    summary_text,      \* websocket_endpoint's local summary_text
    clock,             \* datetime.now(timezone.utc) of the call, in half seconds
    calls,             \* Record Store table calls: the row of this call
    call_attempts,     \* Record Store table call_attempts: status of this call's row
    call_summaries,    \* Record Store table call_summaries: rows of this call
    closes,            \* calls of realtime_service.close() so far
    fin_writes,        \* finalization statements executed, per table
    delivered,         \* transcript turns the adapter has delivered, in order
    episodes,          \* speech starts the local detector has reported
    clears,            \* clear events handle_interruption has sent to the transport
    cancels,           \* cancel signals handle_interruption has sent to the adapter
    owed,              \* signals not issued yet since the last local speech start
    low_seen,          \* a frame below 0.3 was scored since the last speech start
    stale,             \* an adapter audio frame was forwarded while a signal was owed
    tool_requests,     \* tool-call requests the adapter has delivered
    tool_replies,      \* results the receive loop has sent back to the adapter, in order
    custom_parameters, \* customParameters of the start event received
    start_args,        \* the qid and attempts passed to log_call_start_sync
    attempt_number,    \* Record Store table call_attempts: attempt_number of the row
    greetings,         \* greetings send_greeting has written to the adapter
    vad_requests,      \* turn-detection requests enable_vad has written to the adapter
    arrived,           \* media frames the handler has taken from the transport
    forwarded,         \* the frames send_audio has written to the adapter, by arrival number
    adapter_frames,    \* audio frames the receive loop has taken from the adapter
    rate_cv_state,     \* realtime_service.rate_cv_state
    ratecv_calls,      \* per direction, the state passed to each audioop.ratecv call
    media_sids,        \* the streamSid of each media event handed to send_to_twilio
    effects            \* per adapter class, what one sequence of events and commands did

cfgVars == <<twilio_number, column_default, observe>>
svcVars == <<is_running, current_call_sid>>
taskVars == <<pc, prospect, sid, final_status>>
storeVars == <<contacts, queue, hist, log>>
envVars == <<carrier, now>>

handlerVars == <<hpc, stream_sid, vad_active, end_time, duration, summary_text>>
adapterVars == <<ws, is_connected, connection_event, transcript, ipc, rpc>>
executorVars == <<lpc, start_ts>>
tableVars == <<calls, call_attempts, call_summaries, attempt_number>>
obsVars == <<closes, fin_writes, delivered, episodes, clears, cancels, owed, low_seen,
             stale>>
toolVars == <<tool_requests, tool_replies>>
startVars == <<custom_parameters, start_args>>
audioVars == <<greetings, vad_requests, arrived, forwarded, adapter_frames,
               rate_cv_state, ratecv_calls, media_sids>>
bridgeVars == <<variant, websocket, clock, handlerVars, adapterVars, executorVars,
                tableVars, obsVars, toolVars, startVars, audioVars, effects>>
dialerVars == <<contacts, queue, is_running, current_call_sid, twilio_number,
                column_default, observe, pc, prospect, sid, final_status, carrier,
                now, hist, log>>

vars == <<contacts, queue, is_running, current_call_sid, twilio_number,
          column_default, faults, observe, pc, prospect, sid, final_status, carrier,
          now, hist, log, bridgeVars>>

\* ------------------------------------------------------------ Record Store
NoProspect == [id |-> 0, attempt_count |-> 0, max_attempts |-> 0,
               status |-> "none", next_retry_at |-> NoTime]

\* the row add_to_queue inserts; max_attempts is left to the column's default
QueueItem(contact_id) ==
    [contact_id |-> contact_id, status |-> "pending", attempt_count |-> 0,
     max_attempts |-> column_default, next_retry_at |-> NoTime,
     call_sid |-> NoSid, error_reason |-> ""]

PhoneOf(i) == contacts[queue[i].contact_id]

\* select("id").eq("phone_number", number)
ContactIds(cs, number) == {c \in 1..Len(cs) : cs[c] = number}

\* whether a call of the Record Store or of the carrier client may raise
FaultChoices == IF faults < MaxFaults THEN {FALSE, TRUE} ELSE {FALSE}

\* whether a step counts as one in which something raised
Raised(a, b, c) == IF a \/ b \/ c THEN 1 ELSE 0

\* hist and log, which the program does not read
Noted(h, i, e) == IF observe THEN [h EXCEPT ![i] = Append(@, e)] ELSE h

\* ------------------------------------------------------------ add_to_queue
\* What can happen to one number of a batch: both the contact and the queue row are
\* written, the contact select raises, the contact insert returns no row, the contact
\* insert raises, the queue insert raises.
EnqueueResults == {"ok", "select_raises", "insert_empty", "insert_raises", "queue_raises"}
FailCount(results) == IF \E k \in 1..Len(results) : results[k] # "ok" THEN 1 ELSE 0

\* (variant: the contact select is skipped, a contact is inserted for every number)
AddNumberNoLookup(st, number, result) ==
    LET contact_id == Len(st.contacts) + 1
        created == result \in {"ok", "queue_raises"}
        inserted == result = "ok"
    IN  [contacts |-> IF created THEN Append(st.contacts, number) ELSE st.contacts,
         queue |-> IF inserted THEN Append(st.queue, QueueItem(contact_id)) ELSE st.queue,
         hist |-> IF inserted
                  THEN Append(st.hist, IF observe THEN <<"pending">> ELSE <<>>)
                  ELSE st.hist,
         log |-> IF inserted THEN Append(st.log, <<>>) ELSE st.log]

\* One pass of the for loop of add_to_queue over st = [contacts, queue, hist, log].
AddNumber(st, number, result) ==
    LET found == ContactIds(st.contacts, number)
        contact_id == IF found # {} THEN CHOOSE c \in found : \A d \in found : c <= d
                      ELSE Len(st.contacts) + 1
        created == found = {} /\ result \in {"ok", "queue_raises"}
        inserted == /\ result \in {"ok", "insert_empty", "insert_raises"}
                    /\ found # {} \/ result = "ok"
    IN  [contacts |-> IF created THEN Append(st.contacts, number) ELSE st.contacts,
         queue |-> IF inserted THEN Append(st.queue, QueueItem(contact_id)) ELSE st.queue,
         hist |-> IF inserted
                  THEN Append(st.hist, IF observe THEN <<"pending">> ELSE <<>>)
                  ELSE st.hist,
         log |-> IF inserted THEN Append(st.log, <<>>) ELSE st.log]

RECURSIVE AddNumbers(_, _, _)
AddNumbers(st, batch, results) ==
    IF batch = <<>> THEN st
    ELSE AddNumbers(AddNumber(st, Head(batch), Head(results)), Tail(batch), Tail(results))

\* batches that leave the queue within its bound
Batches == UNION {[1..n -> Numbers] : n \in 0..(MaxItems - Len(queue))}

\* the lowest task slot not used yet
FreeWorkers == {w \in Workers : pc[w] = "none"}
NextWorker == CHOOSE w \in FreeWorkers : \A v \in FreeWorkers : w <= v

\* if not is_running: asyncio.create_task(process_queue()); the task's body runs later
CreateTask == IF is_running THEN pc ELSE [pc EXCEPT ![NextWorker] = "created"]

add_to_queue(batch, results) ==
    /\ is_running \/ FreeWorkers # {}
    /\ faults + FailCount(results) <= MaxFaults
    /\ faults' = faults + FailCount(results)
    /\ LET st == AddNumbers([contacts |-> contacts, queue |-> queue, hist |-> hist,
                             log |-> log], batch, results)
       IN  /\ contacts' = st.contacts
           /\ queue' = st.queue
           /\ hist' = st.hist
           /\ log' = st.log
    /\ pc' = CreateTask
    /\ UNCHANGED <<prospect, sid, final_status>>
    /\ UNCHANGED <<svcVars, cfgVars, bridgeVars, envVars>>

Enqueue ==
    \E batch \in Batches :
      \E results \in [1..Len(batch) -> EnqueueResults] :
        add_to_queue(batch, results)

\* ------------------------------------------------------------ startup hook
startup_event ==
    /\ is_running \/ FreeWorkers # {}
    /\ pc' = CreateTask
    /\ UNCHANGED <<is_running, current_call_sid, faults, prospect, sid, final_status>>
    /\ UNCHANGED <<cfgVars, bridgeVars, storeVars, envVars>>

\* ------------------------------------------------------------ process_queue
\* the sleeps of the loop: no row (line 111), no URL (134), iteration done (186),
\* iteration done by the inner handler (186), outer handler (190)
SleepStates == {"sleep_idle", "sleep_nourl", "sleep_done", "sleep_caught", "sleep_error"}

\* at the head of the while loop; a task created and not yet run starts there
AtTop(w) == pc[w] \in {"created", "top"}

\* self.is_running = True, the first statement of process_queue
Running(w) == IF pc[w] = "created" THEN TRUE ELSE is_running

\* (variant: the status filter of the first select also lets failed rows through)
PendingOrFailed == {i \in 1..Len(queue) : queue[i].status \in {"pending", "failed_final"}}

\* select(...).eq("status", "pending")
Pending == {i \in 1..Len(queue) : queue[i].status = "pending"}
\* (variant: the second select without its lte filter)
RetryScheduled == {i \in 1..Len(queue) : queue[i].status = "retry_scheduled"}
\* select(...).eq("status", "retry_scheduled").lte("next_retry_at", now_iso)
RetryDue == {i \in 1..Len(queue) : /\ queue[i].status = "retry_scheduled"
                                   /\ queue[i].next_retry_at <= now}

\* the rows one of which the selects return (limit(1), the order is the store's)
Candidates == IF Pending # {} THEN Pending ELSE RetryDue

\* update({"status": status, "error_reason": reason}).eq("id", i)
SetStatus(q, i, status, reason) ==
    [q EXCEPT ![i].status = status, ![i].error_reason = reason]

\* if not settings.TWILIO_PHONE_NUMBER: break
Stop(w) ==
    /\ AtTop(w)
    /\ ~twilio_number
    /\ pc' = [pc EXCEPT ![w] = "exited"]
    /\ is_running' = Running(w)
    /\ UNCHANGED <<current_call_sid, faults, prospect, sid, final_status>>
    /\ UNCHANGED <<cfgVars, bridgeVars, storeVars, envVars>>

\* the selects: one raises, or neither returns a row
Fetch(w) ==
    /\ AtTop(w)
    /\ twilio_number
    /\ \E raised \in FaultChoices :
         /\ faults' = faults + Raised(raised, FALSE, FALSE)
         /\ IF raised
            THEN pc' = [pc EXCEPT ![w] = "sleep_error"]
            ELSE /\ Candidates = {}
                 /\ pc' = [pc EXCEPT ![w] = "sleep_idle"]
    /\ is_running' = Running(w)
    /\ UNCHANGED <<current_call_sid, prospect, sid, final_status>>
    /\ UNCHANGED <<cfgVars, bridgeVars, storeVars, envVars>>

\* a row whose contact has no phone number: failed_final, then continue
NoPhone(w) ==
    /\ AtTop(w)
    /\ twilio_number
    /\ \E i \in Candidates :
         /\ ~(PhoneOf(i) # "")
         /\ \E raised \in FaultChoices :
              /\ faults' = faults + Raised(raised, FALSE, FALSE)
              /\ IF raised
                 THEN /\ pc' = [pc EXCEPT ![w] = "sleep_error"]
                      /\ UNCHANGED <<queue, hist>>
                 ELSE /\ pc' = [pc EXCEPT ![w] = "top"]
                      /\ queue' = SetStatus(queue, i, "failed_final", "No phone number")
                      /\ hist' = Noted(hist, i, "failed_final")
    /\ is_running' = Running(w)
    /\ UNCHANGED <<current_call_sid, prospect, sid, final_status, contacts, log>>
    /\ UNCHANGED <<cfgVars, bridgeVars, envVars>>

\* a row with a phone number: mark it calling, then await get_ngrok_url()
Pick(w) ==
    /\ AtTop(w)
    /\ twilio_number
    /\ \E i \in Candidates :
         /\ PhoneOf(i) # ""
         /\ \E raised \in FaultChoices :
              /\ faults' = faults + Raised(raised, FALSE, FALSE)
              /\ IF raised
                 THEN /\ pc' = [pc EXCEPT ![w] = "sleep_error"]
                      /\ UNCHANGED <<queue, hist, prospect>>
                 ELSE /\ pc' = [pc EXCEPT ![w] = "ngrok"]
                      /\ prospect' = [prospect EXCEPT ![w] =
                           [id |-> i, attempt_count |-> queue[i].attempt_count,
                            max_attempts |-> queue[i].max_attempts,
                            status |-> queue[i].status,
                            next_retry_at |-> queue[i].next_retry_at]]
                      /\ queue' = [queue EXCEPT ![i].status = "calling"]
                      /\ hist' = Noted(hist, i, "calling")
    /\ is_running' = Running(w)
    /\ UNCHANGED <<current_call_sid, sid, final_status, contacts, log>>
    /\ UNCHANGED <<cfgVars, bridgeVars, envVars>>

\* (variant: no outer handler, an exception of the inner handler ends the task)
FailedEscapes(w, i, raised) ==
    IF raised
    THEN /\ UNCHANGED <<queue, hist>>
         /\ pc' = [pc EXCEPT ![w] = "exited"]
    ELSE /\ queue' = SetStatus(queue, i, "failed_final", "exception")
         /\ hist' = Noted(hist, i, "failed_final")
         /\ pc' = [pc EXCEPT ![w] = "sleep_caught"]

\* the handler of the inner try: failed_final with str(e) as the reason; when that
\* update raises too, the outer handler sleeps
Failed(w, i, raised) ==
    IF raised
    THEN /\ UNCHANGED <<queue, hist>>
         /\ pc' = [pc EXCEPT ![w] = "sleep_error"]
    ELSE /\ queue' = SetStatus(queue, i, "failed_final", "exception")
         /\ hist' = Noted(hist, i, "failed_final")
         /\ pc' = [pc EXCEPT ![w] = "sleep_caught"]

\* get_ngrok_url() has returned None: back off
NoUrl(w) ==
    /\ pc[w] = "ngrok"
    /\ pc' = [pc EXCEPT ![w] = "sleep_nourl"]
    /\ log' = Noted(log, prospect[w].id, "no_url")
    /\ UNCHANGED <<prospect, sid, final_status, contacts, queue, hist, faults>>
    /\ UNCHANGED <<svcVars, cfgVars, bridgeVars, envVars>>

\* get_ngrok_url() has returned the public URL: place the call
Dial(w) ==
    /\ pc[w] = "ngrok"
    /\ LET i == prospect[w].id
           new == Sid(i, prospect[w].attempt_count)
       IN  \E createRaises, updateRaises, handlerRaises \in FaultChoices :
                  /\ faults + Raised(createRaises, updateRaises, handlerRaises) <= MaxFaults
                  /\ faults' = faults + Raised(createRaises, updateRaises, handlerRaises)
                  /\ createRaises => ~updateRaises
                  /\ handlerRaises => (createRaises \/ updateRaises)
                  /\ IF createRaises
                     THEN /\ log' = Noted(log, i, "place_error")
                          /\ Failed(w, i, handlerRaises)
                          /\ UNCHANGED <<carrier, sid, current_call_sid>>
                     ELSE /\ carrier' = [carrier EXCEPT ![new] = "queued"]
                          /\ IF updateRaises
                             THEN /\ log' = Noted(log, i, "store_error")
                                  /\ Failed(w, i, handlerRaises)
                                  /\ UNCHANGED <<sid, current_call_sid>>
                             ELSE /\ queue' = [queue EXCEPT ![i].call_sid = new]
                                  /\ current_call_sid' = new
                                  /\ sid' = [sid EXCEPT ![w] = new]
                                  /\ pc' = [pc EXCEPT ![w] = "wait"]
                                  /\ UNCHANGED <<hist, log>>
    /\ UNCHANGED <<is_running, prospect, final_status, contacts, now>>
    /\ UNCHANGED <<cfgVars, bridgeVars>>

\* (variant: the last attempt is given away, > for >=)
OutcomeOffByOne(q, i, p, final) ==
    IF final = "completed"
    THEN [q EXCEPT ![i].status = "answered"]
    ELSE LET current_attempts == p.attempt_count + 1
         IN  IF current_attempts > p.max_attempts
             THEN [q EXCEPT ![i].status = "failed_final",
                            ![i].attempt_count = current_attempts,
                            ![i].error_reason = final]
             ELSE [q EXCEPT ![i].status = "retry_scheduled",
                            ![i].attempt_count = current_attempts,
                            ![i].next_retry_at = now + RetryDelay,
                            ![i].error_reason = final]

\* (variant: a completed call is counted as an attempt too)
OutcomeCountsAnswered(q, i, p, final) ==
    IF final = "completed"
    THEN [q EXCEPT ![i].status = "answered", ![i].attempt_count = p.attempt_count + 1]
    ELSE LET current_attempts == p.attempt_count + 1
         IN  IF current_attempts >= p.max_attempts
             THEN [q EXCEPT ![i].status = "failed_final",
                            ![i].attempt_count = current_attempts,
                            ![i].error_reason = final]
             ELSE [q EXCEPT ![i].status = "retry_scheduled",
                            ![i].attempt_count = current_attempts,
                            ![i].next_retry_at = now + RetryDelay,
                            ![i].error_reason = final]

\* (variant: the retry is scheduled for now, the delay is forgotten)
OutcomeRetryNow(q, i, p, final) ==
    IF final = "completed"
    THEN [q EXCEPT ![i].status = "answered"]
    ELSE LET current_attempts == p.attempt_count + 1
         IN  IF current_attempts >= p.max_attempts
             THEN [q EXCEPT ![i].status = "failed_final",
                            ![i].attempt_count = current_attempts,
                            ![i].error_reason = final]
             ELSE [q EXCEPT ![i].status = "retry_scheduled",
                            ![i].attempt_count = current_attempts,
                            ![i].next_retry_at = now,
                            ![i].error_reason = final]

\* (variant: a retry puts the item back to pending)
OutcomeRequeues(q, i, p, final) ==
    IF final = "completed"
    THEN [q EXCEPT ![i].status = "answered"]
    ELSE LET current_attempts == p.attempt_count + 1
         IN  IF current_attempts >= p.max_attempts
             THEN [q EXCEPT ![i].status = "failed_final",
                            ![i].attempt_count = current_attempts,
                            ![i].error_reason = final]
             ELSE [q EXCEPT ![i].status = "pending",
                            ![i].attempt_count = current_attempts,
                            ![i].next_retry_at = now + RetryDelay,
                            ![i].error_reason = final]

\* Handle Result: the row after the update the final status of the call leads to
Outcome(q, i, p, final) ==
    IF final = "completed"
    THEN [q EXCEPT ![i].status = "answered"]
    ELSE LET current_attempts == p.attempt_count + 1
         IN  IF current_attempts >= p.max_attempts
             THEN [q EXCEPT ![i].status = "failed_final",
                            ![i].attempt_count = current_attempts,
                            ![i].error_reason = final]
             ELSE [q EXCEPT ![i].status = "retry_scheduled",
                            ![i].attempt_count = current_attempts,
                            ![i].next_retry_at = now + RetryDelay,
                            ![i].error_reason = final]

\* (variant: a status that is not terminal ends the wait like a poll error)
wait_for_call_completionGivesUp(status, fetchRaises) ==
    IF fetchRaises \/ status \notin TerminalCarrierStates THEN "unknown" ELSE status

\* one pass of the loop of wait_for_call_completion over the status the carrier
\* reports: the final status returned, or "polling" when the loop sleeps and polls
\* again
wait_for_call_completion(status, fetchRaises) ==
    IF fetchRaises THEN "unknown"
    ELSE IF status \in TerminalCarrierStates THEN status
    ELSE "polling"

\* one poll of wait_for_call_completion and, once it returns, the rest of the iteration
PollWith(w, fetchRaises, updateRaises, handlerRaises) ==
    /\ pc[w] = "wait"
    /\ LET i == prospect[w].id
           final == wait_for_call_completion(carrier[sid[w]], fetchRaises)
       IN    /\ faults + Raised(fetchRaises, updateRaises, handlerRaises) <= MaxFaults
             /\ faults' = faults + Raised(fetchRaises, updateRaises, handlerRaises)
             /\ handlerRaises => updateRaises
             /\ IF final = "polling"
                THEN /\ ~updateRaises
                     /\ UNCHANGED <<queue, hist, log, pc, final_status>>
                ELSE     /\ final_status' = [final_status EXCEPT ![w] = final]
                         /\ IF updateRaises
                            THEN /\ log' = Noted(Noted(log, i, final), i, "store_error")
                                 /\ Failed(w, i, handlerRaises)
                            ELSE /\ log' = Noted(log, i, final)
                                 /\ queue' = Outcome(queue, i, prospect[w], final)
                                 /\ hist' = Noted(hist, i, queue'[i].status)
                                 /\ pc' = [pc EXCEPT ![w] = "sleep_done"]
    /\ UNCHANGED <<prospect, sid, contacts>>
    /\ UNCHANGED <<svcVars, cfgVars, bridgeVars, envVars>>

Poll(w) ==
    \E fetchRaises, updateRaises, handlerRaises \in FaultChoices :
      PollWith(w, fetchRaises, updateRaises, handlerRaises)

\* asyncio.sleep(...) is over: the next iteration starts with prospect = None
Sleep(w) ==
    /\ pc[w] \in SleepStates
    /\ pc' = [pc EXCEPT ![w] = "top"]
    /\ prospect' = [prospect EXCEPT ![w] = NoProspect]
    /\ sid' = [sid EXCEPT ![w] = NoSid]
    /\ final_status' = [final_status EXCEPT ![w] = "none"]
    /\ UNCHANGED <<svcVars, cfgVars, bridgeVars, storeVars, envVars, faults>>

\* ------------------------------------------------------------ environment
\* tasks polling a call
Watchers(c) == {w \in Workers : pc[w] = "wait" /\ sid[w] = c}

\* call.status values of a call that has not ended
LiveCarrierStates == {"queued", "ringing", "in-progress"}

\* The carrier ends a call with one of these outcomes.  The status of a call no task
\* polls is never read, and is kept as "ended".
CarrierEndWith(outcomes) ==
    \E c \in Sids : \E o \in outcomes :
      /\ carrier[c] \in LiveCarrierStates
      /\ carrier' = [carrier EXCEPT ![c] = IF Watchers(c) # {} THEN o ELSE "ended"]
      /\ now' = now
      /\ UNCHANGED <<svcVars, cfgVars, bridgeVars, taskVars, storeVars, faults>>

CarrierEnd == CarrierEndWith(CarrierOutcomes)

\* A call a task polls goes on from queued to ringing and from ringing to in-progress.
CarrierProgress ==
    \E c \in Sids :
      /\ carrier[c] \in {"queued", "ringing"}
      /\ Watchers(c) # {}
      /\ carrier' = [carrier EXCEPT ![c] = IF @ = "queued" THEN "ringing"
                                           ELSE "in-progress"]
      /\ now' = now
      /\ UNCHANGED <<svcVars, cfgVars, bridgeVars, taskVars, storeVars, faults>>

Waiting == {i \in 1..Len(queue) : /\ queue[i].status = "retry_scheduled"
                                  /\ queue[i].next_retry_at > now}

\* The clock is read only to compare it with next_retry_at, so a tick is a step
\* only while a row waits for its retry time.
Tick ==
    /\ Waiting # {}
    /\ now' = now + 1
    /\ carrier' = carrier
    /\ UNCHANGED <<svcVars, cfgVars, bridgeVars, taskVars, storeVars, faults>>

\* ------------------------------------------------------------ get_outbound_status
\* self.queue = asyncio.Queue(): no statement of the program puts an item into it
asyncio_queue == <<>>
\* asyncio.Queue.qsize()
qsize(q) == Len(q)

\* GET /status: the response
get_outbound_status ==
    [is_running |-> is_running,
     current_call_sid |-> current_call_sid,
     queue_size |-> qsize(asyncio_queue)]

\* ------------------------------------------------------------ call bridge: values
Variants == {"gemini", "openai"}   \* GeminiRealtimeService, OpenAIRealtimeService
Roles == {"user", "assistant"}     \* role of a transcript turn

\* speech probabilities VadService.is_speech returns, in tenths (0 also when it fails)
Probs == {0, 2, 3, 5, 6, 10}
HighThreshold == 5                 \* speech_prob > 0.5
LowThreshold == 3                  \* speech_prob < 0.3
TicksPerSecond == 2                \* clock readings per second

\* the calls table without the row of this call
NoCall == [call_status |-> "none", start_time |-> NoTime, end_time |-> NoTime,
           call_duration |-> 0, transcript |-> <<>>, call_queue_id |-> "None"]
NoWrites == [calls |-> 0, call_summaries |-> 0, call_attempts |-> 0]

\* Python's None, and NULL in a row
None == "None"

\* a key of customParameters: absent ({}) or present with one value
Optional(values) == {{}} \cup {{v} : v \in values}
\* dict.get(key, default)
Get(opt, default) == IF opt = {} THEN default ELSE CHOOSE v \in opt : TRUE

\* queueId and attemptCount as the transport delivers them: strings, attemptCount
\* character by character
QueueIds == {"", "Q1"}
AttemptCounts == {<<>>, <<"2">>, <<"1", "0">>, <<"x">>, <<"2", "x">>}
CustomParameters ==
    [queueId : Optional(QueueIds), attemptCount : Optional(AttemptCounts)]
\* the parameters of the scenario: queueId "Q1", attemptCount "2"
ScenarioParameters == [queueId |-> {"Q1"}, attemptCount |-> {<<"2">>}]
NoParameters == [queueId |-> {}, attemptCount |-> {}]

DigitValue == ("0" :> 0) @@ ("1" :> 1) @@ ("2" :> 2) @@ ("3" :> 3) @@ ("4" :> 4) @@
              ("5" :> 5) @@ ("6" :> 6) @@ ("7" :> 7) @@ ("8" :> 8) @@ ("9" :> 9)
\* int(s) returns for a string of decimal digits and raises ValueError otherwise
IsNumeral(s) == Len(s) > 0 /\ \A k \in 1..Len(s) : s[k] \in DOMAIN DigitValue
RECURSIVE IntValue(_)
IntValue(s) ==
    IF Len(s) = 0 THEN 0
    ELSE 10 * IntValue(SubSeq(s, 1, Len(s) - 1)) + DigitValue[s[Len(s)]]

\* attempt_count without the try: what is not a numeral counts as no attempt
AttemptCountUnguarded(cp) ==
    LET attempt_str == Get(cp.attemptCount, <<"1">>) IN
    IF IsNumeral(attempt_str) THEN IntValue(attempt_str) ELSE 0
\* attempt_str = custom_params.get("attemptCount", "1"); int() or, on any
\* exception, 1
AttemptCount(cp) ==
    LET attempt_str == Get(cp.attemptCount, <<"1">>) IN
    IF IsNumeral(attempt_str) THEN IntValue(attempt_str) ELSE 1

\* "call_queue_id": qid if qid else None
QueueReference(qid) == IF qid = None \/ qid = "" THEN None ELSE qid

\* no start event was received
NoStart ==
    /\ custom_parameters = NoParameters
    /\ start_args = [qid |-> None, attempts |-> 0]
    /\ attempt_number = 0

\* the state argument of audioop.ratecv: None, or what the call for chunk n of a
\* direction returned
NoState == [dir |-> "none", chunk |-> 0]
Returned(d, n) == [dir |-> d, chunk |-> n]

\* no greeting was sent and no audio frame was handled
NoAudio ==
    /\ greetings = 0
    /\ vad_requests = 0
    /\ arrived = 0
    /\ forwarded = <<>>
    /\ adapter_frames = 0
    /\ rate_cv_state = NoState
    /\ ratecv_calls = [to_adapter |-> <<>>, to_caller |-> <<>>]
    /\ media_sids = <<>>

\* the methods and attributes an adapter class has, of those websocket_endpoint
\* uses of realtime_service
Methods(v) ==
    {"connect", "wait_for_connection", "send_greeting", "enable_vad", "send_audio",
     "close", "stream_sid", "is_connected", "transcript"}
    \cup (IF v = "openai" THEN {"handle_interruption"} ELSE {})
\* realtime_service.handle_interruption() is there to be called
Interrupts(v) == "handle_interruption" \in Methods(v)

\* an adapter fresh from its constructor, connected, with its receive loop running
\* and the stream id set
FreshEffects ==
    [transcript |-> <<>>, media |-> 0, clears |-> 0, replies |-> <<>>, sent |-> 0,
     connected |-> TRUE, running |-> TRUE, raised |-> FALSE, events |-> 0]
NoEffects == [v \in Variants |-> FreshEffects]

\* no tool call was requested
NoTools ==
    /\ tool_requests = 0
    /\ tool_replies = <<>>

\* no connection on /stream: nothing of a call exists
BridgeIdle ==
    /\ variant = "gemini"
    /\ hpc = "none"
    /\ websocket = "closed"
    /\ stream_sid = FALSE
    /\ vad_active = FALSE
    /\ end_time = NoTime
    /\ duration = 0
    /\ summary_text = ""
    /\ ws = "none"
    /\ is_connected = FALSE
    /\ connection_event = FALSE
    /\ transcript = <<>>
    /\ ipc = "none"
    /\ rpc = "none"
    /\ lpc = "none"
    /\ start_ts = NoTime
    /\ clock = 0
    /\ calls = NoCall
    /\ call_attempts = "none"
    /\ call_summaries = 0
    /\ closes = 0
    /\ fin_writes = NoWrites
    /\ delivered = <<>>
    /\ episodes = 0
    /\ clears = 0
    /\ cancels = 0
    /\ owed = {}
    /\ low_seen = FALSE
    /\ stale = FALSE
    /\ NoTools
    /\ NoStart
    /\ NoAudio
    /\ effects = NoEffects

\* ------------------------------------------------------------ specifications
\* OutboundService.__init__, an empty Record Store, no call on /stream
Start ==
    /\ BridgeIdle
    /\ contacts = <<>>
    /\ queue = <<>>
    /\ is_running = FALSE
    /\ current_call_sid = NoSid
    /\ column_default \in 1..DefaultMaxAttempts
    /\ prospect = [w \in Workers |-> NoProspect]
    /\ sid = [w \in Workers |-> NoSid]
    /\ final_status = [w \in Workers |-> "none"]
    /\ carrier = [c \in Sids |-> "none"]
    /\ now = 0
    /\ hist = <<>>
    /\ log = <<>>

Init ==
    /\ Start
    /\ pc = [w \in Workers |-> "none"]
    /\ twilio_number \in BOOLEAN
    /\ faults = 0
    /\ observe = FALSE

Worker(w) ==
    \/ Stop(w)
    \/ Fetch(w)
    \/ NoPhone(w)
    \/ Pick(w)
    \/ NoUrl(w)
    \/ Dial(w)
    \/ Poll(w)
    \/ Sleep(w)

Next ==
    \/ Enqueue
    \/ startup_event
    \/ \E w \in Workers : Worker(w)
    \/ CarrierEnd
    \/ Tick

Spec == Init /\ [][Next]_vars

\* the same runs with hist and log recorded and no exception raised
TraceInit ==
    /\ Start
    /\ pc = [w \in Workers |-> "none"]
    /\ twilio_number \in BOOLEAN
    /\ faults = MaxFaults
    /\ observe = TRUE

TraceSpec == TraceInit /\ [][Next]_vars

\* The event loop runs every task that can run; the carrier ends every call; the
\* clock advances; the tunnel, when it is away, comes back (a task that asks for the
\* URL again and again gets it).
Fairness ==
    /\ \A w \in Workers :
         /\ WF_vars(Stop(w) \/ Fetch(w) \/ NoPhone(w) \/ Pick(w) \/ Poll(w) \/ Sleep(w))
         /\ SF_vars(Dial(w))
    /\ WF_vars(CarrierEnd)
    /\ WF_vars(Tick)

\* the runs of a single worker task: no second task can be created
FairInit ==
    /\ Start
    /\ pc = [w \in Workers |-> IF w = 1 THEN "none" ELSE "absent"]
    /\ twilio_number \in BOOLEAN
    /\ faults = 0
    /\ observe = FALSE

FairSpec == FairInit /\ [][Next]_vars /\ Fairness

\* the runs of a single worker task in which the carrier reports every status a call
\* goes through and ends it with any terminal status
WaitNext ==
    \/ Enqueue
    \/ startup_event
    \/ \E w \in Workers : Worker(w)
    \/ CarrierProgress
    \/ CarrierEndWith(TerminalCarrierStates)
    \/ Tick

\* a column default of 2 takes an item through both branches of the retry rule
WaitInit == FairInit /\ column_default = 2

WaitSpec == WaitInit /\ [][WaitNext]_vars
\* ------------------------------------------------------------ properties
Rows == 1..Len(queue)
Terminal(i) == queue[i].status \in {"answered", "failed_final"}

\* tasks whose body has started and has not ended
Alive == {w \in Workers : pc[w] \notin {"none", "absent", "created", "exited"}}

\* calls the carrier has not ended
InFlight == {c \in Sids : carrier[c] = "queued"}

\* C1: in every reachable state, the attempt_count of every queue item is at most its
\* max_attempts, whatever the carrier outcomes, poll errors and exceptions were.
C1_AttemptsBounded ==
    \A i \in Rows : queue[i].attempt_count <= queue[i].max_attempts

\* an item that used up three attempts
C1_Witness ==
    \E i \in Rows : /\ queue[i].max_attempts = DefaultMaxAttempts
                    /\ queue[i].attempt_count = queue[i].max_attempts
                    /\ queue[i].status = "failed_final"

\* C2: once a queue item is answered or failed_final, no step changes its row
\* (status and attempt_count among it), no task selects it, no task stands in an
\* iteration for it, and no call is placed for it.
C2_TerminalFrozen ==
    [][\A i \in Rows :
         Terminal(i) =>
           /\ queue'[i] = queue[i]
           /\ \A w \in Workers :
                /\ prospect'[w].id = i => prospect[w].id = i
                /\ prospect'[w].id = i => pc'[w] \notin {"ngrok", "wait"}
           /\ \A n \in 0..(DefaultMaxAttempts - 1) :
                carrier'[Sid(i, n)] = "queued" => carrier[Sid(i, n)] = "queued"]_vars

\* both kinds of terminal item are there and a task has polled and found no row
C2_Witness ==
    /\ \E i \in Rows : queue[i].status = "answered"
    /\ \E i \in Rows : queue[i].status = "failed_final" /\ queue[i].attempt_count > 0
    /\ \A i \in Rows : Terminal(i)
    /\ \E w \in Workers : pc[w] = "sleep_idle"

\* C3: with a single worker task, at most one call the carrier has not ended exists.
C3_OneCallInFlight ==
    Cardinality({w \in Workers : pc[w] \notin {"none", "absent"}}) <= 1
      => Cardinality(InFlight) <= 1

NoAnswer == "no-answer"
ScenarioOutcomes == <<NoAnswer, NoAnswer, "completed">>
ScenarioStatuses == <<"pending", "calling", "retry_scheduled", "calling", "retry_scheduled",
                      "calling", "answered">>

\* C4 (as amended): an item with max_attempts 3 whose carrier outcomes are no-answer,
\* no-answer, completed has gone through pending, calling, retry_scheduled, calling,
\* retry_scheduled, calling and ends answered with attempt_count 2.
C4_Scenario ==
    \A i \in Rows :
      queue[i].max_attempts = 3 =>
        /\ (log[i] = SubSeq(ScenarioOutcomes, 1, 2)) =>
             /\ SubSeq(hist[i], 1, 5) = SubSeq(ScenarioStatuses, 1, 5)
             /\ hist[i] \in {SubSeq(ScenarioStatuses, 1, 5), SubSeq(ScenarioStatuses, 1, 6)}
             /\ queue[i].attempt_count = 2
        /\ (log[i] = ScenarioOutcomes) =>
             /\ hist[i] = ScenarioStatuses
             /\ queue[i].status = "answered"
             /\ queue[i].attempt_count = 2

\* the scenario has run to its end
C4_Witness ==
    \E i \in Rows : /\ queue[i].max_attempts = 3
                    /\ log[i] = ScenarioOutcomes
                    /\ queue[i].status = "answered"

\* C4 as stated: the same scenario ends with attempt_count 3.
C4_AsStated ==
    \A i \in Rows :
      queue[i].max_attempts = 3 /\ log[i] = ScenarioOutcomes
        => /\ hist[i] = ScenarioStatuses
           /\ queue[i].status = "answered"
           /\ queue[i].attempt_count = 3

\* C5: while a task backs off because the public URL was not available, the row it
\* had selected has the status, attempt_count and next_retry_at it was selected with.
C5_NoUrlLeavesItem ==
    \A w \in Workers :
      pc[w] = "sleep_nourl" =>
        LET row == queue[prospect[w].id]
        IN  /\ row.status = prospect[w].status
            /\ row.attempt_count = prospect[w].attempt_count
            /\ row.next_retry_at = prospect[w].next_retry_at

\* C6: when a dial ends and its result is written, a completed call makes the item
\* answered; any other final status adds one to attempt_count and makes the item
\* failed_final if the new count has reached max_attempts, else retry_scheduled with
\* next_retry_at later than now; in both the final status is the error_reason.
C6_OutcomeRule ==
    [][\A w \in Workers :
         pc[w] = "wait" /\ pc'[w] = "sleep_done" =>
           LET i == prospect[w].id
               final == final_status'[w]
               old == queue[i]
               new == queue'[i]
           IN  /\ final \in TerminalCarrierStates \cup {"unknown"}
               /\ final \in TerminalCarrierStates => final = carrier[sid[w]]
               /\ IF final = "completed"
                  THEN new.status = "answered"
                  ELSE /\ new.attempt_count = old.attempt_count + 1
                       /\ new.error_reason = final
                       /\ IF new.attempt_count >= old.max_attempts
                          THEN new.status = "failed_final"
                          ELSE /\ new.status = "retry_scheduled"
                               /\ new.next_retry_at > now']_vars

\* a dial that ended unanswered and is retried
C6_Witness ==
    \E w \in Workers :
      /\ pc[w] = "sleep_done"
      /\ final_status[w] = NoAnswer
      /\ queue[prospect[w].id].status = "retry_scheduled"
      /\ queue[prospect[w].id].next_retry_at > now

\* C7: when the caller number is configured and no exception is raised, every queue
\* item is eventually answered or failed_final.
C7_EveryItemEnds ==
    (twilio_number /\ [](faults = 0)) =>
      \A i \in 1..MaxItems : [](Len(queue) >= i => <>(Len(queue) >= i /\ Terminal(i)))

\* a task is past an error of its iteration
Errored(w) ==
    \/ pc[w] \in {"sleep_error", "sleep_caught"}
    \/ pc[w] = "sleep_done" /\ final_status[w] = "unknown"

\* C8: a task ends only by the configuration check, and a task that met an error in
\* an iteration comes back to the head of the loop, where it polls the Record Store.
C8_ErrorsDoNotStop ==
    /\ [](\A w \in Workers : pc[w] = "exited" => ~twilio_number)
    /\ \A w \in Workers : Errored(w) ~> (pc[w] = "top")

\* the inner handler has run for a row and the task is back at the head of its loop
C8_Witness ==
    /\ \E i \in Rows : queue[i].error_reason = "exception"
    /\ \E w \in Workers : pc[w] = "top"

\* C9: at most one process_queue task is running.
C9_OneWorker == Cardinality(Alive) <= 1

\* numbers of a batch that get a queue row when contact creation is all that fails
HadContact(batch, results, k) ==
    \/ ContactIds(contacts, batch[k]) # {}
    \/ \E j \in 1..(k - 1) : batch[j] = batch[k] /\ results[j] = "ok"
Served(batch, results) ==
    {k \in 1..Len(batch) : results[k] = "ok" \/ HadContact(batch, results, k)}

NewRows == (Len(queue) + 1)..Len(queue')

\* a step that add_to_queue may have taken
EnqueueLike ==
    /\ carrier' = carrier
    /\ now' = now
    /\ prospect' = prospect
    /\ pc' = pc \/ \E w \in Workers : pc[w] = "none" /\ pc'[w] = "created"

\* C10: add_to_queue, when nothing but contact creation fails, adds one pending row
\* with attempt_count 0 for every number of the batch that has or gets a contact and
\* none for a number whose contact could not be created, whatever the rest of the
\* batch is; it leaves the rows and contacts there were, and no number has two contacts.
C10_Enqueue ==
    [][EnqueueLike =>
         \A batch \in Batches :
           \A results \in [1..Len(batch) -> {"ok", "insert_empty", "insert_raises"}] :
             add_to_queue(batch, results) =>
               /\ Len(queue') = Len(queue) + Cardinality(Served(batch, results))
               /\ \A i \in Rows : queue'[i] = queue[i]
               /\ \A i \in NewRows : /\ queue'[i].status = "pending"
                                     /\ queue'[i].attempt_count = 0
               /\ \A number \in Numbers :
                    /\ Cardinality({i \in NewRows : contacts'[queue'[i].contact_id] = number})
                         = Cardinality({k \in Served(batch, results) : batch[k] = number})
                    /\ Cardinality(ContactIds(contacts', number)) <= 1
               /\ SubSeq(contacts', 1, Len(contacts)) = contacts]_vars

\* a batch was added whose second number found the contact of the first
C10_Witness ==
    /\ Len(queue) = 2
    /\ queue[1].contact_id = queue[2].contact_id
    /\ queue[2].status = "pending" /\ queue[2].attempt_count = 0

\* ======================================================================
\* The realtime call bridge: one connection on /stream
\* ======================================================================
\* websocket_endpoint runs on the event loop together with init_task (connect())
\* and the adapter's receive_loop task; a step is the code from one await to the
\* next.  log_call_start_sync runs in an executor thread, one Record Store request
\* per step.

\* send_to_twilio: websocket.send_text reaches the transport while it is open; an
\* exception is logged and swallowed
Sent == websocket = "open"

\* self.ws.send raises ConnectionClosed once the adapter connection is closed
WsSendRaises == ws # "open"

\* close(): what `if self.ws: await self.ws.close()` leaves in self.ws
CloseWs(w) == IF w = "none" THEN "none" ELSE "closed"

\* close() without the `if self.ws` guard raises on ws None
CloseRaisesOnNone(w) == w = "none"
\* close() raises: never, ws.close() is skipped for None and does nothing when closed
CloseRaises(w) == FALSE

\* int((end_time - start_time).total_seconds()): truncation towards zero
Duration(e, s) ==
    IF e >= s THEN (e - s) \div TicksPerSecond ELSE -((s - e) \div TicksPerSecond)

\* vad_active after a frame scored p
Hysteresis(active, p) ==
    IF p > HighThreshold THEN TRUE ELSE IF p < LowThreshold THEN FALSE ELSE active

\* ------------------------------------------------------------ websocket_endpoint
\* event "connected", or an event the handler has no branch for
OnConnected ==
    /\ hpc = "recv"
    /\ websocket = "open"
    /\ UNCHANGED <<bridgeVars, dialerVars, faults>>

\* event "start" with customParameters cp: set the stream id, read the parameters,
\* submit log_call_start_sync, wait for the adapter
OnStartWith(cp) ==
    /\ hpc = "recv"
    /\ websocket = "open"
    /\ lpc = "none"
    /\ stream_sid' = TRUE
    /\ custom_parameters' = cp
    /\ start_args' = [qid |-> Get(cp.queueId, None), attempts |-> AttemptCount(cp)]
    /\ lpc' = "submitted"
    /\ hpc' = "wait_conn"
    /\ UNCHANGED <<vad_active, end_time, duration, summary_text, start_ts>>
    /\ UNCHANGED <<variant, websocket, clock, adapterVars, tableVars, obsVars>>
    /\ UNCHANGED <<dialerVars, faults>>
    /\ UNCHANGED effects
    /\ UNCHANGED audioVars
    /\ UNCHANGED toolVars

\* the start event of the scenario
OnStart == OnStartWith(ScenarioParameters)

\* wait_for_connection returns; send_greeting writes the greeting to the adapter and
\* enable_vad, in the OpenAI variant, the turn-detection request
Greet ==
    /\ hpc = "wait_conn"
    /\ connection_event
    /\ hpc' = IF WsSendRaises THEN "fin_stamp" ELSE "recv"
    /\ greetings' = IF WsSendRaises THEN greetings ELSE greetings + 1
    /\ vad_requests' = IF WsSendRaises \/ variant = "gemini" THEN vad_requests
                       ELSE vad_requests + 1
    /\ UNCHANGED <<arrived, forwarded, adapter_frames, rate_cv_state, ratecv_calls,
                   media_sids>>
    /\ UNCHANGED <<stream_sid, vad_active, end_time, duration, summary_text>>
    /\ UNCHANGED <<variant, websocket, clock, adapterVars, executorVars, tableVars,
                   obsVars>>
    /\ UNCHANGED <<dialerVars, faults>>
    /\ UNCHANGED effects
    /\ UNCHANGED startVars
    /\ UNCHANGED toolVars

\* send_audio after the detector block: where the handler goes next
AfterSendAudio ==
    IF is_connected /\ variant = "openai" /\ WsSendRaises THEN "fin_stamp" ELSE "recv"

\* send_audio has a message to write: the OpenAI variant passes the payload on as
\* it came, the Gemini variant decodes it, and logs the exception when it cannot
Accepts(v, decodes) == v = "openai" \/ decodes

\* send_audio with the frames of an utterance left out
ForwardsUnlessSpeech(decodes) ==
    is_connected /\ ~WsSendRaises /\ Accepts(variant, decodes) /\ ~vad_active

\* send_audio writes the frame to the adapter
Forwards(decodes) ==
    is_connected /\ ~WsSendRaises /\ Accepts(variant, decodes)

\* send_audio calls audioop.ratecv: the Gemini variant, on a frame that decodes
Resamples(decodes) == is_connected /\ variant = "gemini" /\ decodes

\* send_audio(payload) for the frame with this arrival number
SendAudio(frame, decodes) ==
    /\ forwarded' = IF observe /\ Forwards(decodes) THEN Append(forwarded, frame)
                    ELSE forwarded
    /\ IF observe /\ Resamples(decodes)
       THEN /\ ratecv_calls' =
                  [ratecv_calls EXCEPT !.to_adapter = Append(@, rate_cv_state)]
            /\ rate_cv_state' = Returned("to_adapter", Len(ratecv_calls.to_adapter) + 1)
       ELSE UNCHANGED <<ratecv_calls, rate_cv_state>>

\* event "media" with a payload that decodes or not and scores p; the transport
\* sends media after start
OnMedia(p, decodes) ==
    /\ hpc = "recv"
    /\ websocket = "open"
    /\ stream_sid
    /\ observe => arrived < MaxFrames
    /\ arrived' = IF observe THEN arrived + 1 ELSE arrived
    /\ IF ~is_connected \/ (decodes /\ p > HighThreshold /\ ~vad_active
                              /\ Interrupts(variant))
       THEN UNCHANGED <<forwarded, ratecv_calls, rate_cv_state>>
       ELSE SendAudio(arrived + 1, decodes)
    /\ UNCHANGED <<greetings, vad_requests, adapter_frames, media_sids>>
    /\ IF ~is_connected
       THEN UNCHANGED <<hpc, vad_active, episodes, clears, owed, low_seen>>
       ELSE LET starts == decodes /\ p > HighThreshold /\ ~vad_active IN
            /\ starts => episodes < MaxEpisodes
            /\ vad_active' = IF decodes THEN Hysteresis(vad_active, p) ELSE vad_active
            /\ episodes' = IF starts THEN episodes + 1 ELSE episodes
            /\ low_seen' = IF starts THEN FALSE
                           ELSE IF decodes /\ p < LowThreshold THEN TRUE ELSE low_seen
            /\ IF starts /\ Interrupts(variant)
               THEN \* handle_interruption: clear is written, cancel after the await
                    /\ clears' = clears + 1
                    /\ owed' = {"cancel"}
                    /\ hpc' = "cancel"
               ELSE \* GeminiRealtimeService has no handle_interruption: the
                    \* AttributeError is caught with the detector's errors
                    /\ clears' = clears
                    /\ owed' = IF starts THEN {"clear", "cancel"} ELSE owed
                    /\ hpc' = AfterSendAudio
    /\ UNCHANGED <<stream_sid, end_time, duration, summary_text>>
    /\ UNCHANGED <<variant, websocket, clock, adapterVars, executorVars, tableVars>>
    /\ UNCHANGED <<closes, fin_writes, delivered, cancels, stale>>
    /\ UNCHANGED <<dialerVars, faults>>
    /\ UNCHANGED effects
    /\ UNCHANGED startVars
    /\ UNCHANGED toolVars

\* handle_interruption after its first await: response.cancel, then send_audio
Cancel ==
    /\ hpc = "cancel"
    /\ IF WsSendRaises
       THEN UNCHANGED <<cancels, owed>>
       ELSE /\ cancels' = cancels + 1
            /\ owed' = owed \ {"cancel"}
    /\ hpc' = AfterSendAudio
    /\ SendAudio(arrived, TRUE)
    /\ UNCHANGED <<greetings, vad_requests, arrived, adapter_frames, media_sids>>
    /\ UNCHANGED <<stream_sid, vad_active, end_time, duration, summary_text>>
    /\ UNCHANGED <<variant, websocket, clock, adapterVars, executorVars, tableVars>>
    /\ UNCHANGED <<closes, fin_writes, delivered, episodes, clears, low_seen, stale>>
    /\ UNCHANGED <<dialerVars, faults>>
    /\ UNCHANGED effects
    /\ UNCHANGED startVars
    /\ UNCHANGED toolVars

\* event "stop" or "close": close the adapter and leave the loop
OnStop ==
    /\ hpc = "recv"
    /\ websocket = "open"
    /\ closes' = closes + 1
    /\ is_connected' = FALSE
    /\ ws' = IF CloseRaises(ws) THEN ws ELSE CloseWs(ws)
    /\ hpc' = "fin_stamp"
    /\ UNCHANGED <<stream_sid, vad_active, end_time, duration, summary_text>>
    /\ UNCHANGED <<connection_event, transcript, ipc, rpc>>
    /\ UNCHANGED <<variant, websocket, clock, executorVars, tableVars>>
    /\ UNCHANGED <<fin_writes, delivered, episodes, clears, cancels, owed, low_seen,
                   stale>>
    /\ UNCHANGED <<dialerVars, faults>>
    /\ UNCHANGED effects
    /\ UNCHANGED audioVars
    /\ UNCHANGED startVars
    /\ UNCHANGED toolVars

\* receive_text raises WebSocketDisconnect, or a message is malformed
OnException ==
    /\ hpc = "recv"
    /\ websocket \in {"open", "gone"}
    /\ hpc' = "fin_stamp"
    /\ UNCHANGED <<stream_sid, vad_active, end_time, duration, summary_text>>
    /\ UNCHANGED <<variant, websocket, clock, adapterVars, executorVars, tableVars,
                   obsVars>>
    /\ UNCHANGED <<dialerVars, faults>>
    /\ UNCHANGED effects
    /\ UNCHANGED audioVars
    /\ UNCHANGED startVars
    /\ UNCHANGED toolVars

\* finally: end_time = datetime.now(timezone.utc)
FinStamp ==
    /\ hpc = "fin_stamp"
    /\ end_time' = clock
    /\ hpc' = "fin_select"
    /\ UNCHANGED <<stream_sid, vad_active, duration, summary_text>>
    /\ UNCHANGED <<variant, websocket, clock, adapterVars, executorVars, tableVars,
                   obsVars>>
    /\ UNCHANGED <<dialerVars, faults>>
    /\ UNCHANGED effects
    /\ UNCHANGED audioVars
    /\ UNCHANGED startVars
    /\ UNCHANGED toolVars

\* the texts summarize_call returns in place of a summary
NoTranscriptText == "No transcript available."
NoContentText == "Summary unavailable (No content returned)."
FailedText == "Summary generation failed."

\* what the language model does with the request: it answers with a text, answers
\* with a first part whose text is missing or blank, answers without candidates or
\* parts, or the request raises (transport error, timeout, HTTP status, bad JSON)
LlmOutcomes == {"text", "blank", "no_content", "raises"}

\* summarize_call without its `if not transcript` guard
summarize_callUnguarded(t, llm) ==
    CASE llm = "text" -> "summary"
      [] llm = "blank" -> ""
      [] llm = "no_content" -> NoContentText
      [] OTHER -> FailedText
\* LLMService.summarize_call(transcript) when the model does llm
summarize_call(t, llm) ==
    IF t = <<>> THEN NoTranscriptText
    ELSE CASE llm = "text" -> "summary"
           [] llm = "blank" -> ""
           [] llm = "no_content" -> NoContentText
           [] OTHER -> FailedText

\* an exception inside the finally block's try leaves finalization without
\* reaching the teardown
AfterFinErrorEscapes == "crashed"
\* except Exception: the error is logged and the handler goes on to the teardown
AfterFinError == "teardown"

\* select start_time ... single(): raises when the request fails (f) or finds no
\* row; then the duration, and summarize_call is called with the transcript as it
\* is now
FinSelectWith(f, llm) ==
    /\ hpc = "fin_select"
    /\ faults' = faults + Raised(f, FALSE, FALSE)
    /\ IF f \/ calls = NoCall
       THEN /\ hpc' = AfterFinError
            /\ UNCHANGED <<duration, summary_text>>
       ELSE /\ hpc' = "fin_summary"
            /\ duration' = Duration(end_time, calls.start_time)
            /\ summary_text' = summarize_call(transcript, llm)
    /\ UNCHANGED <<stream_sid, vad_active, end_time>>
    /\ UNCHANGED <<variant, websocket, clock, adapterVars, executorVars, tableVars,
                   obsVars>>
    /\ UNCHANGED dialerVars
    /\ UNCHANGED effects
    /\ UNCHANGED audioVars
    /\ UNCHANGED startVars
    /\ UNCHANGED toolVars

FinSelect == \E f \in FaultChoices : \E llm \in LlmOutcomes : FinSelectWith(f, llm)

\* the statements of finalization that write, in order
FinStatements == <<"calls", "call_summaries", "call_attempts">>
\* a write raises: the rest of finalization is skipped
FinFaults == IF faults < MaxFaults THEN 0..3 ELSE {0}
Written(k, raises) == raises = 0 \/ k < raises

\* summarize_call has returned; the three writes, up to the first that raises
\* (raises = 0: none does).  summary_text is not read after them.
FinWriteWith(raises) ==
    /\ hpc = "fin_summary"
    /\ faults' = faults + (IF raises = 0 THEN 0 ELSE 1)
    /\ calls' = IF Written(1, raises) /\ calls # NoCall
                THEN [calls EXCEPT !.call_status = "completed",
                                   !.end_time = end_time,
                                   !.call_duration = duration,
                                   !.transcript = transcript]
                ELSE calls
    /\ call_summaries' = IF Written(2, raises) THEN call_summaries + 1
                         ELSE call_summaries
    /\ call_attempts' = IF Written(3, raises) /\ call_attempts # "none"
                        THEN "completed" ELSE call_attempts
    /\ attempt_number' = attempt_number
    /\ fin_writes' = [t \in DOMAIN fin_writes |->
                        IF \E k \in 1..3 : FinStatements[k] = t /\ Written(k, raises)
                        THEN fin_writes[t] + 1 ELSE fin_writes[t]]
    /\ hpc' = IF raises = 0 THEN "teardown" ELSE AfterFinError
    /\ summary_text' = ""
    /\ UNCHANGED <<stream_sid, vad_active, end_time, duration>>
    /\ UNCHANGED <<variant, websocket, clock, adapterVars, executorVars>>
    /\ UNCHANGED <<closes, delivered, episodes, clears, cancels, owed, low_seen, stale>>
    /\ UNCHANGED dialerVars
    /\ UNCHANGED effects
    /\ UNCHANGED audioVars
    /\ UNCHANGED startVars
    /\ UNCHANGED toolVars

FinWrite == \E raises \in FinFaults : FinWriteWith(raises)

\* realtime_service.close() after finalization; an exception leaves the handler
Teardown ==
    /\ hpc = "teardown"
    /\ closes' = closes + 1
    /\ is_connected' = FALSE
    /\ ws' = IF CloseRaises(ws) THEN ws ELSE CloseWs(ws)
    /\ hpc' = IF CloseRaises(ws) THEN "crashed" ELSE "transport_close"
    /\ UNCHANGED <<stream_sid, vad_active, end_time, duration, summary_text>>
    /\ UNCHANGED <<connection_event, transcript, ipc, rpc>>
    /\ UNCHANGED <<variant, websocket, clock, executorVars, tableVars>>
    /\ UNCHANGED <<fin_writes, delivered, episodes, clears, cancels, owed, low_seen,
                   stale>>
    /\ UNCHANGED <<dialerVars, faults>>
    /\ UNCHANGED effects
    /\ UNCHANGED audioVars
    /\ UNCHANGED startVars
    /\ UNCHANGED toolVars

\* websocket.close(), whatever it raises is swallowed
TransportClose ==
    /\ hpc = "transport_close"
    /\ websocket' = "closed"
    /\ hpc' = "closed"
    /\ UNCHANGED <<stream_sid, vad_active, end_time, duration, summary_text>>
    /\ UNCHANGED <<variant, clock, adapterVars, executorVars, tableVars, obsVars>>
    /\ UNCHANGED <<dialerVars, faults>>
    /\ UNCHANGED effects
    /\ UNCHANGED audioVars
    /\ UNCHANGED startVars
    /\ UNCHANGED toolVars

\* ------------------------------------------------------------ log_call_start_sync
\* start_ts = datetime.now(timezone.utc), when the executor runs the function
LogStamp ==
    /\ lpc = "submitted"
    /\ start_ts' = clock
    /\ lpc' = "stamped"
    /\ UNCHANGED <<variant, websocket, clock, handlerVars, adapterVars, tableVars,
                   obsVars>>
    /\ UNCHANGED <<dialerVars, faults>>
    /\ UNCHANGED effects
    /\ UNCHANGED audioVars
    /\ UNCHANGED startVars
    /\ UNCHANGED toolVars

\* insert into calls: status active, start_time start_ts
LogInsertCall ==
    /\ lpc = "stamped"
    /\ \E f \in FaultChoices :
         /\ faults' = faults + Raised(f, FALSE, FALSE)
         /\ IF f
            THEN /\ lpc' = "done"
                 /\ calls' = calls
            ELSE /\ lpc' = "inserted"
                 /\ calls' = [NoCall EXCEPT !.call_status = "active",
                                            !.start_time = start_ts,
                                            !.call_queue_id =
                                                QueueReference(start_args.qid)]
    /\ UNCHANGED <<start_ts, call_attempts, call_summaries, attempt_number>>
    /\ UNCHANGED <<variant, websocket, clock, handlerVars, adapterVars, obsVars>>
    /\ UNCHANGED dialerVars
    /\ UNCHANGED effects
    /\ UNCHANGED audioVars
    /\ UNCHANGED startVars
    /\ UNCHANGED toolVars

\* insert into call_attempts: status initiated, attempt_number attempts
LogInsertAttempt ==
    /\ lpc = "inserted"
    /\ \E f \in FaultChoices :
         /\ faults' = faults + Raised(f, FALSE, FALSE)
         /\ call_attempts' = IF f THEN call_attempts ELSE "initiated"
         /\ attempt_number' = IF f THEN attempt_number ELSE start_args.attempts
    /\ lpc' = "done"
    /\ UNCHANGED <<start_ts, calls, call_summaries>>
    /\ UNCHANGED <<variant, websocket, clock, handlerVars, adapterVars, obsVars>>
    /\ UNCHANGED dialerVars
    /\ UNCHANGED effects
    /\ UNCHANGED audioVars
    /\ UNCHANGED startVars
    /\ UNCHANGED toolVars

\* ------------------------------------------------------------ the event loop
\* websocket_endpoint stands at an await, where the event loop runs init_task and
\* the receive loop.  From the exception or the break to the call of summarize_call,
\* and from its return to close(), the handler makes no await: the Record Store
\* requests are synchronous.  summarize_call awaits its HTTP request, which it makes
\* only for a transcript that is not empty.
HandlerAwaits ==
    /\ hpc \notin {"fin_stamp", "fin_select", "teardown"}
    /\ hpc = "fin_summary" => transcript # <<>>

\* ------------------------------------------------------------ connect()
\* connect() with the greeting it used to send itself
GreetingsOfConnectLegacy == 1
\* greetings connect() sends: none, the caller sends the greeting when ready
GreetingsOfConnect == 0

\* websockets.connect returns or raises; on success the setup message is written
Connect ==
    /\ HandlerAwaits
    /\ ipc = "connecting"
    /\ \E ok \in BOOLEAN :
         IF ok
         THEN /\ ws' = "open"
              /\ is_connected' = TRUE
              /\ connection_event' = TRUE
              /\ ipc' = "setup"
         ELSE /\ ipc' = "failed"
              /\ UNCHANGED <<ws, is_connected, connection_event>>
    /\ greetings' = IF ipc' = "setup" THEN greetings + GreetingsOfConnect ELSE greetings
    /\ UNCHANGED <<vad_requests, arrived, forwarded, adapter_frames, rate_cv_state,
                   ratecv_calls, media_sids>>
    /\ UNCHANGED <<transcript, rpc>>
    /\ UNCHANGED <<variant, websocket, clock, handlerVars, executorVars, tableVars,
                   obsVars>>
    /\ UNCHANGED <<dialerVars, faults>>
    /\ UNCHANGED effects
    /\ UNCHANGED startVars
    /\ UNCHANGED toolVars

\* asyncio.create_task(self.receive_loop())
StartLoop ==
    /\ HandlerAwaits
    /\ ipc = "setup"
    /\ ipc' = "done"
    /\ rpc' = "running"
    /\ UNCHANGED <<ws, is_connected, connection_event, transcript>>
    /\ UNCHANGED <<variant, websocket, clock, handlerVars, executorVars, tableVars,
                   obsVars>>
    /\ UNCHANGED <<dialerVars, faults>>
    /\ UNCHANGED effects
    /\ UNCHANGED audioVars
    /\ UNCHANGED startVars
    /\ UNCHANGED toolVars

\* ------------------------------------------------------------ receive_loop
\* the Gemini loop decodes and resamples a frame inside the try that holds the
\* whole loop
LoopSurvives(v, decodes) == v = "openai" \/ decodes

\* the streamSid of the start event, which names the call on the transport
CallStreamSid == "MZ1"
\* realtime_service.stream_sid: None until the start event sets it
StreamSid == IF stream_sid THEN CallStreamSid ELSE None

\* (variant: an output frame is forwarded whether the stream id is set or not)
ForwardsMediaUntagged == TRUE
\* `if self.stream_sid:`, the condition under which an output frame is wrapped in a
\* media event and handed to send_to_twilio
ForwardsMedia == stream_sid

\* an audio frame from the adapter, which decodes or not.  The Gemini variant
\* decodes it, resamples it with state None and forwards it to the transport when
\* the stream id is set; an exception ends the loop.  The OpenAI variant forwards
\* the payload as it came.
LoopAudio(decodes) ==
    /\ HandlerAwaits
    /\ rpc = "running"
    /\ ws = "open"
    /\ observe => adapter_frames < MaxFrames
    /\ adapter_frames' = IF observe THEN adapter_frames + 1 ELSE adapter_frames
    /\ IF LoopSurvives(variant, decodes)
       THEN /\ stale' = (stale \/ (ForwardsMedia /\ Sent /\ owed # {}))
            /\ media_sids' = IF observe /\ ForwardsMedia
                             THEN Append(media_sids, StreamSid) ELSE media_sids
            /\ ratecv_calls' =
                  IF observe /\ variant = "gemini"
                  THEN [ratecv_calls EXCEPT !.to_caller = Append(@, NoState)]
                  ELSE ratecv_calls
            /\ UNCHANGED <<rpc, is_connected>>
       ELSE /\ rpc' = "stopped"
            /\ is_connected' = FALSE
            /\ UNCHANGED <<stale, ratecv_calls, media_sids>>
    /\ UNCHANGED <<greetings, vad_requests, arrived, forwarded, rate_cv_state>>
    /\ UNCHANGED <<closes, fin_writes, delivered, episodes, clears, cancels, owed,
                   low_seen>>
    /\ UNCHANGED <<ws, connection_event, transcript, ipc>>
    /\ UNCHANGED <<variant, websocket, clock, handlerVars, executorVars, tableVars>>
    /\ UNCHANGED <<dialerVars, faults>>
    /\ UNCHANGED effects
    /\ UNCHANGED startVars
    /\ UNCHANGED toolVars

\* roles of the turns a variant's vendor delivers: the Gemini session is set up for
\* model output only
TurnRoles == IF variant = "gemini" THEN {"assistant"} ELSE Roles

\* self.transcript after a transcript turn of the OpenAI variant
AppendTurn(t, r) == Append(t, r)

\* self.transcript after a transcript turn: the Gemini loop logs the text and
\* appends nothing
OnTurn(v, t, r) == IF v = "openai" THEN AppendTurn(t, r) ELSE t

\* a transcript / text turn from the adapter
LoopTurn ==
    /\ HandlerAwaits
    /\ rpc = "running"
    /\ ws = "open"
    /\ Len(delivered) < MaxTurns
    /\ \E r \in TurnRoles :
         /\ delivered' = Append(delivered, r)
         /\ transcript' = OnTurn(variant, transcript, r)
    /\ UNCHANGED <<ws, is_connected, connection_event, ipc, rpc>>
    /\ UNCHANGED <<closes, fin_writes, episodes, clears, cancels, owed, low_seen, stale>>
    /\ UNCHANGED <<variant, websocket, clock, handlerVars, executorVars, tableVars>>
    /\ UNCHANGED <<dialerVars, faults>>
    /\ UNCHANGED effects
    /\ UNCHANGED audioVars
    /\ UNCHANGED startVars
    /\ UNCHANGED toolVars

\* the vendor's own speech detection: speech_started (OpenAI), interrupted (Gemini);
\* clear goes to the transport, the OpenAI variant then sends response.cancel
LoopInterrupted ==
    /\ HandlerAwaits
    /\ rpc = "running"
    /\ ws = "open"
    /\ owed' = IF Sent THEN owed \ {"clear"} ELSE owed
    /\ rpc' = IF variant = "openai" THEN "cancel" ELSE "running"
    /\ UNCHANGED <<ws, is_connected, connection_event, transcript, ipc>>
    /\ UNCHANGED <<closes, fin_writes, delivered, episodes, clears, cancels, low_seen,
                   stale>>
    /\ UNCHANGED <<variant, websocket, clock, handlerVars, executorVars, tableVars>>
    /\ UNCHANGED <<dialerVars, faults>>
    /\ UNCHANGED effects
    /\ UNCHANGED audioVars
    /\ UNCHANGED startVars
    /\ UNCHANGED toolVars

\* response.cancel of the receive loop; ConnectionClosed ends the loop
LoopCancel ==
    /\ HandlerAwaits
    /\ rpc = "cancel"
    /\ IF WsSendRaises
       THEN /\ rpc' = "stopped"
            /\ is_connected' = FALSE
            /\ owed' = owed
       ELSE /\ rpc' = "running"
            /\ is_connected' = is_connected
            /\ owed' = owed \ {"cancel"}
    /\ UNCHANGED <<ws, connection_event, transcript, ipc>>
    /\ UNCHANGED <<closes, fin_writes, delivered, episodes, clears, cancels, low_seen,
                   stale>>
    /\ UNCHANGED <<variant, websocket, clock, handlerVars, executorVars, tableVars>>
    /\ UNCHANGED <<dialerVars, faults>>
    /\ UNCHANGED effects
    /\ UNCHANGED audioVars
    /\ UNCHANGED startVars
    /\ UNCHANGED toolVars

\* `async for message in self.ws` ends with the connection; finally: is_connected
LoopEnd ==
    /\ HandlerAwaits
    /\ rpc = "running"
    /\ ws = "closed"
    /\ rpc' = "stopped"
    /\ is_connected' = FALSE
    /\ UNCHANGED <<ws, connection_event, transcript, ipc>>
    /\ UNCHANGED <<variant, websocket, clock, handlerVars, executorVars, tableVars,
                   obsVars>>
    /\ UNCHANGED <<dialerVars, faults>>
    /\ UNCHANGED effects
    /\ UNCHANGED audioVars
    /\ UNCHANGED startVars
    /\ UNCHANGED toolVars

\* json.loads raises on a vendor message: the except clause is outside the loop, so
\* the loop is left with the adapter connection still open; finally: is_connected
LoopMalformed ==
    /\ HandlerAwaits
    /\ rpc = "running"
    /\ ws = "open"
    /\ rpc' = "stopped"
    /\ is_connected' = FALSE
    /\ UNCHANGED <<ws, connection_event, transcript, ipc>>
    /\ UNCHANGED <<variant, websocket, clock, handlerVars, executorVars, tableVars,
                   obsVars>>
    /\ UNCHANGED <<dialerVars, faults>>
    /\ UNCHANGED effects
    /\ UNCHANGED audioVars
    /\ UNCHANGED startVars
    /\ UNCHANGED toolVars

\* ------------------------------------------------------------ handle_function_call
\* the function the session declares, and any other name
Functions == {"query_knowledge_base", "other"}
\* the request's arguments: an object (OpenAI: the JSON text of one), or not
Arguments == {"object", "malformed"}

\* the result text when the search returns nothing, or fails and returns []
NoInfoText(v) ==
    IF v = "gemini" THEN "No information found."
    ELSE "No information found in knowledge base."

\* result_text after the search found something or not; the joined results are
\* one text here
ResultText(v, found) == IF found THEN "results" ELSE NoInfoText(v)

\* what becomes of a tool-call request: it is answered with an empty result at
\* once ("empty"), the search is awaited ("search"), or nothing is sent ("none")
ToolPath(v, name, args) ==
    IF name # "query_knowledge_base"
    THEN IF v = "gemini" THEN "empty" ELSE "none"
    ELSE IF args = "object" THEN "search" ELSE "none"

\* a tool-call request (Gemini: toolCall; OpenAI: function_call_arguments.done).
\* Gemini answers a name it does not know with an empty result at once; OpenAI
\* handles the declared name only; arguments that are no object raise inside
\* handle_function_call, where the exception is logged.  Otherwise the search is
\* awaited.
LoopToolCall(name, args) ==
    /\ HandlerAwaits
    /\ rpc = "running"
    /\ ws = "open"
    /\ tool_requests < MaxToolCalls
    /\ tool_requests' = tool_requests + 1
    /\ rpc' = IF ToolPath(variant, name, args) = "search" THEN "tool" ELSE rpc
    /\ tool_replies' = IF ToolPath(variant, name, args) = "empty"
                       THEN Append(tool_replies, "") ELSE tool_replies
    /\ UNCHANGED <<ws, is_connected, connection_event, transcript, ipc>>
    /\ UNCHANGED <<variant, websocket, clock, handlerVars, executorVars, tableVars,
                   obsVars>>
    /\ UNCHANGED <<dialerVars, faults>>
    /\ UNCHANGED effects
    /\ UNCHANGED audioVars
    /\ UNCHANGED startVars

\* qdrant.search has returned: the result is written to the adapter (OpenAI:
\* followed by response.create); an exception of ws.send is logged
LoopToolReply(found) ==
    /\ HandlerAwaits
    /\ rpc = "tool"
    /\ rpc' = "running"
    /\ tool_replies' = IF WsSendRaises THEN tool_replies
                       ELSE Append(tool_replies, ResultText(variant, found))
    /\ tool_requests' = tool_requests
    /\ UNCHANGED <<ws, is_connected, connection_event, transcript, ipc>>
    /\ UNCHANGED <<variant, websocket, clock, handlerVars, executorVars, tableVars,
                   obsVars>>
    /\ UNCHANGED <<dialerVars, faults>>
    /\ UNCHANGED effects
    /\ UNCHANGED audioVars
    /\ UNCHANGED startVars

\* ------------------------------------------------------------ the two adapter classes
\* the events an adapter takes from its vendor and the commands the handler gives it
ContractEvents ==
    [kind : {"turn"}, role : Roles]
    \cup [kind : {"audio", "send_audio"}, decodes : BOOLEAN]
    \cup [kind : {"tool"}, name : Functions, args : Arguments, found : BOOLEAN]
    \cup [kind : {"interrupt", "close"}]

\* what an adapter of class v, having done s, has done after event or command e:
\* receive_loop for the vendor's events while it runs, send_audio,
\* handle_interruption and close for the commands; a command the class has no
\* method for raises AttributeError in the handler
Apply(v, s, e) ==
    LET t == [s EXCEPT !.events = @ + 1] IN
    CASE e.kind = "turn" ->
           IF s.running THEN [t EXCEPT !.transcript = OnTurn(v, @, e.role)] ELSE t
      [] e.kind = "audio" ->
           IF ~s.running THEN t
           ELSE IF LoopSurvives(v, e.decodes) THEN [t EXCEPT !.media = @ + 1]
           ELSE [t EXCEPT !.running = FALSE, !.connected = FALSE]
      [] e.kind = "tool" ->
           IF ~s.running THEN t
           ELSE IF ToolPath(v, e.name, e.args) = "empty"
                THEN [t EXCEPT !.replies = Append(@, "")]
           ELSE IF ToolPath(v, e.name, e.args) = "search"
                THEN [t EXCEPT !.replies = Append(@, ResultText(v, e.found))]
           ELSE t
      [] e.kind = "send_audio" ->
           IF s.connected /\ Accepts(v, e.decodes) THEN [t EXCEPT !.sent = @ + 1] ELSE t
      [] e.kind = "interrupt" ->
           IF ~Interrupts(v) THEN [t EXCEPT !.raised = TRUE]
           ELSE IF s.connected THEN [t EXCEPT !.clears = @ + 1] ELSE t
      [] OTHER -> [t EXCEPT !.running = FALSE, !.connected = FALSE]

\* one event or command, given to an adapter of each class
ContractStep(e) ==
    /\ \A v \in Variants : effects[v].events < MaxEvents
    /\ effects' = [v \in Variants |-> Apply(v, effects[v], e)]
    /\ UNCHANGED <<variant, websocket, clock, handlerVars, adapterVars, executorVars,
                   tableVars, obsVars, toolVars, startVars, audioVars>>
    /\ UNCHANGED <<dialerVars, faults>>

\* ------------------------------------------------------------ the call's environment
\* the vendor closes the adapter connection, or it drops
AdapterDrop ==
    /\ ws = "open"
    /\ ws' = "closed"
    /\ UNCHANGED <<is_connected, connection_event, transcript, ipc, rpc>>
    /\ UNCHANGED <<variant, websocket, clock, handlerVars, executorVars, tableVars,
                   obsVars>>
    /\ UNCHANGED <<dialerVars, faults>>
    /\ UNCHANGED effects
    /\ UNCHANGED audioVars
    /\ UNCHANGED startVars
    /\ UNCHANGED toolVars

\* the telephony peer leaves without stop or close
TransportDrop ==
    /\ websocket = "open"
    /\ websocket' = "gone"
    /\ UNCHANGED <<variant, clock, handlerVars, adapterVars, executorVars, tableVars,
                   obsVars>>
    /\ UNCHANGED <<dialerVars, faults>>
    /\ UNCHANGED effects
    /\ UNCHANGED audioVars
    /\ UNCHANGED startVars
    /\ UNCHANGED toolVars

\* The clock is read for start_ts and for end_time; only their difference is used,
\* so time passes from the start event until both are read.
ClockTick ==
    /\ clock < MaxClock
    /\ \/ lpc = "submitted"
       \/ lpc # "none" /\ hpc \in {"recv", "wait_conn", "cancel", "fin_stamp"}
    /\ clock' = clock + 1
    /\ UNCHANGED <<variant, websocket, handlerVars, adapterVars, executorVars, tableVars,
                   obsVars>>
    /\ UNCHANGED <<dialerVars, faults>>
    /\ UNCHANGED effects
    /\ UNCHANGED audioVars
    /\ UNCHANGED startVars
    /\ UNCHANGED toolVars

\* ------------------------------------------------------------ specifications
\* the dialer does nothing while the call is looked at
DialerIdle ==
    /\ contacts = <<>>
    /\ queue = <<>>
    /\ is_running = FALSE
    /\ current_call_sid = NoSid
    /\ twilio_number = TRUE
    /\ column_default = DefaultMaxAttempts
    /\ pc = [w \in Workers |-> "none"]
    /\ prospect = [w \in Workers |-> NoProspect]
    /\ sid = [w \in Workers |-> NoSid]
    /\ final_status = [w \in Workers |-> "none"]
    /\ carrier = [c \in Sids |-> "none"]
    /\ now = 0
    /\ hist = <<>>
    /\ log = <<>>

\* websocket_endpoint after websocket.accept(): the adapter is constructed, init_task
\* is created, nothing has been received
BridgeStart ==
    /\ variant \in Variants
    /\ hpc = "recv"
    /\ websocket = "open"
    /\ stream_sid = FALSE
    /\ vad_active = FALSE
    /\ end_time = NoTime
    /\ duration = 0
    /\ summary_text = ""
    /\ ws = "none"
    /\ is_connected = FALSE
    /\ connection_event = FALSE
    /\ transcript = <<>>
    /\ ipc = "connecting"
    /\ rpc = "none"
    /\ lpc = "none"
    /\ start_ts = NoTime
    /\ clock = 0
    /\ calls = NoCall
    /\ call_attempts = "none"
    /\ call_summaries = 0
    /\ closes = 0
    /\ fin_writes = NoWrites
    /\ delivered = <<>>
    /\ episodes = 0
    /\ clears = 0
    /\ cancels = 0
    /\ owed = {}
    /\ low_seen = FALSE
    /\ stale = FALSE
    /\ NoTools
    /\ NoStart
    /\ NoAudio
    /\ effects = NoEffects

BridgeInit ==
    /\ DialerIdle
    /\ BridgeStart
    /\ observe = FALSE
    /\ faults = 0

Handler ==
    \/ OnConnected
    \/ OnStart
    \/ Greet
    \/ \E p \in Probs : \E decodes \in BOOLEAN : OnMedia(p, decodes)
    \/ Cancel
    \/ OnStop
    \/ OnException
    \/ FinStamp
    \/ FinSelect
    \/ FinWrite
    \/ Teardown
    \/ TransportClose

BridgeNext ==
    \/ Handler
    \/ Connect
    \/ StartLoop
    \/ \E decodes \in BOOLEAN : LoopAudio(decodes)
    \/ LoopTurn
    \/ LoopInterrupted
    \/ LoopCancel
    \/ LoopEnd
    \/ LoopMalformed
    \/ LogStamp
    \/ LogInsertCall
    \/ LogInsertAttempt
    \/ AdapterDrop
    \/ TransportDrop
    \/ ClockTick

BridgeSpec == BridgeInit /\ [][BridgeNext]_vars

\* the same call with a Record Store that answers every request
BridgeCalmInit ==
    /\ DialerIdle
    /\ BridgeStart
    /\ observe = FALSE
    /\ faults = MaxFaults

BridgeCalmSpec == BridgeCalmInit /\ [][BridgeNext]_vars

\* The event loop runs every coroutine that can run and the executor runs the
\* function submitted to it; websockets.connect returns or raises within its
\* open_timeout.  Nothing obliges the vendor to send or to close.
LoopFairness ==
    /\ WF_vars(Greet)
    /\ WF_vars(Cancel)
    /\ WF_vars(FinStamp \/ FinSelect \/ FinWrite \/ Teardown \/ TransportClose)
    /\ WF_vars(Connect)
    /\ WF_vars(StartLoop)
    /\ WF_vars(LoopCancel)
    /\ WF_vars(LoopEnd)
    /\ WF_vars(LogStamp \/ LogInsertCall \/ LogInsertAttempt)

\* the telephony peer ends every stream with stop, close or a disconnect
BridgeFairness ==
    /\ LoopFairness
    /\ SF_vars(OnStop \/ OnException)

\* a call in which nobody speaks: its life cycle without audio, turns and time
Lifecycle ==
    \/ OnConnected
    \/ OnStart
    \/ Greet
    \/ OnStop
    \/ OnException
    \/ FinStamp
    \/ FinSelect
    \/ FinWrite
    \/ Teardown
    \/ TransportClose
    \/ Connect
    \/ StartLoop
    \/ LoopEnd
    \/ LoopMalformed
    \/ LogStamp
    \/ LogInsertCall
    \/ LogInsertAttempt
    \/ AdapterDrop
    \/ TransportDrop

\* such a call with the model calling tools
ToolNext ==
    \/ Lifecycle
    \/ \E name \in Functions : \E args \in Arguments : LoopToolCall(name, args)
    \/ \E found \in BOOLEAN : LoopToolReply(found)

ToolSpec == BridgeCalmInit /\ [][ToolNext]_vars

\* the two adapter classes side by side, apart from any call
ContractNext == \E e \in ContractEvents : ContractStep(e)

ContractSpec == BridgeCalmInit /\ [][ContractNext]_vars

\* a call whose audio frames are followed, in both directions
AudioInit ==
    /\ DialerIdle
    /\ BridgeStart
    /\ observe = TRUE
    /\ faults = MaxFaults

AudioNext ==
    \/ Lifecycle
    \/ \E p \in Probs : \E decodes \in BOOLEAN : OnMedia(p, decodes)
    \/ Cancel
    \/ \E decodes \in BOOLEAN : LoopAudio(decodes)
    \/ LoopInterrupted
    \/ LoopCancel

AudioSpec == AudioInit /\ [][AudioNext]_vars

\* the call with the adapter delivering transcript turns and audio frames
FinalNext ==
    \/ Lifecycle
    \/ LoopTurn
    \/ \E decodes \in BOOLEAN : LoopAudio(decodes)

FinalSpec == AudioInit /\ [][FinalNext]_vars

\* such a call started with any custom parameters, on a Record Store that may fail
StartNext ==
    \/ Lifecycle
    \/ \E cp \in CustomParameters : OnStartWith(cp)

StartSpec == BridgeInit /\ [][StartNext]_vars

\* a call whose telephony peer stays on the line
FairAdapterSpec == BridgeCalmInit /\ [][BridgeNext]_vars /\ LoopFairness

FairBridgeSpec == BridgeCalmInit /\ [][BridgeNext]_vars /\ BridgeFairness

\* ------------------------------------------------------------ properties of a call
\* the handler has left the finally block: finalization ran, adapter and transport
\* were closed
Closed == hpc = "closed"
LoopRuns == rpc \in {"running", "cancel"}
Completed == calls.call_status = "completed"

\* C11: a call that received the start event has its CallRecord created active and
\* changed from active to completed exactly once, whatever the order of the
\* executor's insert and the finalization
C11_CompletedExactlyOnce ==
    /\ fin_writes.calls <= 1
    /\ (stream_sid /\ Closed /\ lpc = "done") => (Completed /\ fin_writes.calls = 1)

\* C12: the persisted duration of a finalized call is never negative, whatever the
\* order of the executor's insert and the finalization
C12_DurationNotNegative == Completed => calls.call_duration >= 0

\* C13: after a local speech start, clear and cancel are both issued before the next
\* audio frame of the adapter is forwarded to the transport
C13_InterruptBeforeAudio == ~stale

\* C14: every local speech start while the adapter is connected is followed by a
\* clear to the transport and a cancel to the adapter, with either variant
C14_BothEffects ==
    (hpc = "recv" /\ ws = "open") => (clears >= episodes /\ cancels >= episodes)

\* C15: a speech episode triggers exactly one clear and one cancel, and the next
\* episode starts only after a frame below 0.3
C15_OncePerEpisode ==
    /\ []((hpc = "recv" /\ ws = "open") => (clears = episodes /\ cancels = episodes))
    /\ [][episodes' > episodes => (episodes = 0 \/ low_seen)]_vars

\* the interruption is fired in this step: its first signal leaves
Fires == clears' = clears + 1

\* C16: above 0.5 while inactive sets the flag and fires an interruption, below 0.3
\* clears the flag, in between the flag stays and nothing is fired
C16_Hysteresis ==
    [][\A p \in Probs :
         (is_connected /\ OnMedia(p, TRUE)) =>
           /\ (p > HighThreshold /\ ~vad_active) => (vad_active' /\ Fires)
           /\ p < LowThreshold => ~vad_active'
           /\ (p >= LowThreshold /\ p <= HighThreshold) =>
                (vad_active' = vad_active /\ ~Fires)]_vars

\* C17: the transcript written at finalization is the sequence of turns the adapter
\* delivered until then, in order
C17_TranscriptInOrder ==
    [][(~Completed /\ Completed') => calls'.transcript = delivered]_vars

\* C18: every call ends Closed
C18_EndsClosed == <>Closed

\* C19: once close() was called, the adapter connection ends closed and the receive
\* loop stopped, for good
C19_NothingRuns == [](closes > 0 => <>[](ws # "open" /\ ~LoopRuns))

\* C20: the close() of the final teardown, after the close() of the stop path, raises
\* nothing, leaves the adapter as the first close left it and writes nothing; each
\* finalization statement runs at most once
C20_IdempotentClose ==
    /\ [][(closes >= 1 /\ hpc = "teardown" /\ closes' = closes + 1) =>
            /\ hpc' = "transport_close"
            /\ ~is_connected' /\ ws' # "open"
            /\ (~is_connected /\ ws # "open") => UNCHANGED adapterVars
            /\ UNCHANGED <<tableVars, fin_writes>>]_vars
    /\ [](\A t \in DOMAIN fin_writes : fin_writes[t] <= 1)

\* stop, finalization with its three writes, and the second close() have run
C20_Witness ==
    /\ Closed
    /\ closes = 2
    /\ \A t \in DOMAIN fin_writes : fin_writes[t] = 1

\* the handler is in, or past, the finally block
Finalizing == hpc \notin {"recv", "wait_conn", "cancel"}

\* C21: once the adapter's receive loop has ended on an error, the handler goes on
\* to finalization by itself, while the telephony peer is still on the line and
\* has sent neither stop nor close
C21_AdapterErrorFinalizes ==
    [](rpc = "stopped" => <>(Finalizing \/ websocket # "open"))

\* a statement of finalization raised in this step
FinFailed ==
    \/ \E llm \in LlmOutcomes :
         FinSelectWith(TRUE, llm) \/ (calls = NoCall /\ FinSelectWith(FALSE, llm))
    \/ \E raises \in 1..3 : FinWriteWith(raises)

\* the handler is at, or past, the teardown
TearingDown == hpc \in {"teardown", "transport_close", "closed"}

\* C22: a finalization statement that fails is logged and left: the handler goes
\* straight to the teardown, no finalization statement runs after the failure (none
\* runs twice), and the teardown calls the adapter's close() and then closes the
\* transport
C22_BestEffort ==
    /\ [][FinFailed => hpc' = "teardown"]_vars
    /\ [][TearingDown => (fin_writes' = fin_writes /\ TearingDown')]_vars
    /\ [](\A t \in DOMAIN fin_writes : fin_writes[t] <= 1)
    /\ [][(hpc = "teardown" /\ hpc' # hpc) =>
            (closes' = closes + 1 /\ hpc' = "transport_close")]_vars
    /\ [][(hpc = "transport_close" /\ hpc' # hpc) =>
            (websocket' = "closed" /\ hpc' = "closed")]_vars

\* the CallSummary insert failed after the CallRecord update, and the call is closed
C22_Witness ==
    /\ Closed
    /\ fin_writes = [calls |-> 1, call_summaries |-> 0, call_attempts |-> 0]
    /\ websocket = "closed"
    /\ closes >= 1

\* the texts the language model has no part in
Sentinels == {NoTranscriptText, NoContentText, FailedText}

\* C23: summarize_call returns the no-transcript text for an empty transcript, the
\* text of its failure when the request raises and the no-content text when the
\* answer has no candidate or part; it returns in every case, and the CallRecord
\* update is the statement that follows
C23_SummaryNeverFails ==
    /\ [][\A llm \in LlmOutcomes :
            (FinSelectWith(FALSE, llm) /\ calls # NoCall) =>
               /\ hpc' = "fin_summary"
               /\ transcript = <<>> => summary_text' = NoTranscriptText
               /\ (transcript # <<>> /\ llm = "raises") => summary_text' = FailedText
               /\ (transcript # <<>> /\ llm = "no_content") =>
                     summary_text' = NoContentText
               /\ (transcript # <<>> /\ llm \in {"text", "blank"}) =>
                     summary_text' \notin Sentinels]_vars
    /\ [][\A raises \in 0..3 :
            FinWriteWith(raises) =>
               (raises = 1 \/ fin_writes'.calls = fin_writes.calls + 1)]_vars

\* the language model's request raised on a transcript of two turns, and the
\* handler stands before the CallRecord update with the text of the failure
C23_Witness ==
    /\ hpc = "fin_summary"
    /\ Len(transcript) = 2
    /\ summary_text = FailedText

\* C24: while the adapter connection is open and no search is awaited, every
\* tool-call request delivered so far has got one reply, each the joined results or
\* the no-information text
C24_EveryToolCallAnswered ==
    (rpc = "running" /\ ws = "open") =>
        /\ Len(tool_replies) = tool_requests
        /\ \A k \in 1..Len(tool_replies) :
             tool_replies[k] \in {"results", NoInfoText(variant)}

\* the value of an attemptCount that is an integer numeral, and 1 for one that is
\* missing or is none
AttemptNumberOf(ac) ==
    CASE ac = {<<"2">>} -> 2
      [] ac = {<<"1", "0">>} -> 10
      [] OTHER -> 1

\* C25: the CallAttempt row's attempt_number is the integer value of attemptCount,
\* and 1 for a missing or non-numeric one; the CallRecord's queue reference is
\* queueId when that is present and not empty, and null otherwise
C25_ParametersPersisted ==
    /\ calls # NoCall =>
         calls.call_queue_id = IF custom_parameters.queueId \in {{}, {""}} THEN None
                               ELSE Get(custom_parameters.queueId, None)
    /\ call_attempts # "none" =>
         attempt_number = AttemptNumberOf(custom_parameters.attemptCount)

\* both rows of a call started without a queue id and with a non-numeric
\* attemptCount
C25_Witness ==
    /\ calls # NoCall
    /\ call_attempts # "none"
    /\ custom_parameters = [queueId |-> {""}, attemptCount |-> {<<"2", "x">>}]
    /\ attempt_number = 1

\* C25 as stated: the queue reference equals queueId whenever the start event
\* carries one
C25_AsStated ==
    /\ (calls # NoCall /\ custom_parameters.queueId # {}) =>
         calls.call_queue_id = Get(custom_parameters.queueId, None)
    /\ call_attempts # "none" =>
         attempt_number = AttemptNumberOf(custom_parameters.attemptCount)

\* C26: the frames written to the adapter are in arrival order, none twice, and a
\* frame taken from the transport while the adapter is connected is written by the
\* send_audio call that handles it, whatever the detector scored and whether it
\* started an interruption or not
C26_EveryFrameForwarded ==
    /\ [](\A j \in 1..Len(forwarded) : \A k \in 1..Len(forwarded) :
            j < k => forwarded[j] < forwarded[k])
    /\ [][\A p \in Probs :
            (OnMedia(p, TRUE) /\ is_connected /\ ws = "open" /\ hpc' # "cancel") =>
                forwarded' = Append(forwarded, arrived + 1)]_vars
    /\ [][(Cancel /\ is_connected /\ ws = "open") =>
                forwarded' = Append(forwarded, arrived)]_vars

\* three frames were forwarded in order, two of them started an utterance (in the
\* Gemini variant the interruption call failed on them)
C26_Witness ==
    /\ forwarded = <<1, 2, 3>>
    /\ episodes = 2
    /\ vad_active

Directions == {"to_adapter", "to_caller"}

\* C29: in each direction the first audioop.ratecv call of the call gets no state
\* and every later one the state the call before it, in the same direction,
\* returned
C29_StateThreaded ==
    \A d \in Directions : \A k \in 1..Len(ratecv_calls[d]) :
        ratecv_calls[d][k] = IF k = 1 THEN NoState ELSE Returned(d, k - 1)

\* C30: a frame that does not decode ends neither the handler's loop, when it came
\* from the transport, nor the adapter's receive loop, when it came from the
\* adapter
C30_MalformedFrameDropped ==
    /\ [][\A p \in Probs :
            (OnMedia(p, FALSE) /\ is_connected /\ ws = "open") => hpc' = "recv"]_vars
    /\ [][LoopAudio(FALSE) => (rpc' = "running" /\ is_connected' = is_connected)]_vars

\* C28: after any sequence of events and commands the two adapter classes have
\* done the same - media and clear events to the transport, transcript appends,
\* tool replies - and neither was given a command it has no method for
C28_OneContract ==
    /\ effects["gemini"] = effects["openai"]
    /\ \A v \in Variants : ~effects[v].raised


\* queue items that await dialing
Awaiting == {i \in Rows : queue[i].status \in {"pending", "retry_scheduled"}}

\* C32: the queue depth the status query returns is the number of queue items that
\* are pending or retry_scheduled, and the call id it returns is the id of the call
\* in flight (none when no call is in flight).
C32_StatusReportsQueue ==
    /\ get_outbound_status.queue_size = Cardinality(Awaiting)
    /\ InFlight # {} => get_outbound_status.current_call_sid \in InFlight
    /\ InFlight = {} => get_outbound_status.current_call_sid = NoSid

\* there are queue items and every one of them is answered or failed_final
AllProcessed == Rows # {} /\ \A i \in Rows : Terminal(i)

\* C33: once every number of the batch has been processed, is_running eventually
\* becomes false, so a caller waiting for that terminates.
C33_RunFinishes == [](AllProcessed => <>(~is_running))

\* the calls of a row that a step places
Placed(i) ==
    {n \in 0..(DefaultMaxAttempts - 1) :
       carrier[Sid(i, n)] # "queued" /\ carrier'[Sid(i, n)] = "queued"}

\* C34: a task selects a retry_scheduled item only when its next_retry_at is at most
\* the current time and no pending item exists; a call is placed only for an item
\* selected that way, and no item whose next_retry_at lies in the future is selected,
\* marked calling or dialed.
C34_Selection ==
    /\ [][\A w \in Workers :
            (AtTop(w) /\ pc'[w] = "ngrok") =>
              LET i == prospect'[w].id
              IN  /\ queue[i].status \in {"pending", "retry_scheduled"}
                  /\ queue[i].next_retry_at <= now
                  /\ queue[i].status = "retry_scheduled" => Pending = {}]_vars
    /\ [][\A i \in Rows :
            Placed(i) # {} =>
              /\ queue[i].status = "calling"
              /\ queue[i].next_retry_at <= now
              /\ \E w \in Workers : pc[w] = "ngrok" /\ prospect[w].id = i]_vars
    /\ [](\A i \in Rows : queue[i].status = "calling" => queue[i].next_retry_at <= now)

\* a retry that was due is being dialed while another item waits for its time
C34_Witness ==
    \E w \in Workers :
      /\ pc[w] = "wait"
      /\ prospect[w].status = "retry_scheduled"
      /\ \E j \in Rows : /\ queue[j].status = "retry_scheduled"
                         /\ queue[j].next_retry_at > now

\* C35: an item with a phone number is failed_final only when its attempt_count has
\* reached its max_attempts; an error placing the call, with attempts remaining,
\* leads to a retry.
C35_FailedOnlyWhenExhausted ==
    \A i \in Rows :
      (queue[i].status = "failed_final" /\ PhoneOf(i) # "")
        => queue[i].attempt_count >= queue[i].max_attempts

\* C36: wait_for_call_completion returns the carrier's status when that is one of
\* completed, busy, failed, no-answer, canceled, returns unknown exactly when the
\* status poll raises, and otherwise keeps polling; an unknown result is handled by
\* the retry rule as a call that was not completed.
C36_WaitEnds ==
    [][\A w \in Workers : \A f, u, h \in BOOLEAN :
         PollWith(w, f, u, h) =>
           LET status == carrier[sid[w]]
               old == queue[prospect[w].id]
               new == queue'[prospect[w].id]
           IN  /\ IF f THEN final_status'[w] = "unknown"
                  ELSE IF status \in TerminalCarrierStates
                       THEN final_status'[w] = status
                       ELSE /\ pc'[w] = "wait"
                            /\ final_status'[w] = final_status[w]
                            /\ queue' = queue
               /\ (final_status'[w] = "unknown" /\ ~u) =>
                    /\ new.attempt_count = old.attempt_count + 1
                    /\ new.error_reason = "unknown"
                    /\ new.status = IF new.attempt_count >= old.max_attempts
                                    THEN "failed_final" ELSE "retry_scheduled"]_vars

\* a status poll raised while the call was ringing, and the item is to be retried
C36_Witness ==
    \E w \in Workers :
      /\ pc[w] = "sleep_done"
      /\ final_status[w] = "unknown"
      /\ carrier[sid[w]] = "ringing"
      /\ queue[prospect[w].id].status = "retry_scheduled"
      /\ queue[prospect[w].id].error_reason = "unknown"

\* the status changes of an item that was dialed, and those of an item without a
\* phone number
DialEdges ==
    {<<"pending", "calling">>, <<"retry_scheduled", "calling">>,
     <<"calling", "answered">>, <<"calling", "retry_scheduled">>,
     <<"calling", "failed_final">>}
NoPhoneEdges == {<<"pending", "failed_final">>, <<"retry_scheduled", "failed_final">>}

\* C37: the status of a queue item changes only from pending or retry_scheduled to
\* calling, from calling to answered, retry_scheduled or failed_final, and from
\* pending or retry_scheduled to failed_final for an item without a phone number; a
\* new item starts pending and no item goes back to pending.
C37_StatusEdges ==
    [][/\ \A i \in Rows :
            queue'[i].status # queue[i].status =>
              \/ <<queue[i].status, queue'[i].status>> \in DialEdges
              \/ /\ <<queue[i].status, queue'[i].status>> \in NoPhoneEdges
                 /\ PhoneOf(i) = ""
       /\ \A i \in NewRows : queue'[i].status = "pending"]_vars

\* an item was answered on a retry and an item without a phone number has failed
C37_Witness ==
    \E i, j \in Rows :
      /\ queue[i].status = "answered" /\ queue[i].attempt_count > 0
      /\ queue[j].status = "failed_final" /\ PhoneOf(j) = ""

\* queue items marked calling
Calling == {i \in Rows : queue[i].status = "calling"}

\* C38: with a single worker task, at most one queue item is calling, and none is
\* calling when the task is back at the head of its loop to select another item.
C38_CallingIsCurrent ==
    /\ Cardinality(Calling) <= 1
    /\ \A w \in Workers : pc[w] = "top" => Calling = {}

\* C39: is_running is true exactly while a process_queue task is in its loop; once
\* the loop has been left, on the caller-number check, is_running is false.
C39_RunningIffAlive == is_running <=> Alive # {}

\* C31: every media event the receive loop hands to the transport carries the
\* streamSid of the call's start event; none is sent before the start event has set
\* the stream id, and none carries a missing or another stream id.
C31_MediaCarryStreamSid ==
    /\ \A k \in 1..Len(media_sids) : media_sids[k] = CallStreamSid
    /\ media_sids # <<>> => stream_sid
    /\ Len(media_sids) <= adapter_frames

\* the adapter delivered a frame before the start event, which was not forwarded,
\* and two after it, which were
C31_Witness ==
    /\ rpc = "running"
    /\ adapter_frames = 3
    /\ media_sids = <<CallStreamSid, CallStreamSid>>

\* finalization has started and close() has not been called after it
InFinalization == hpc \in {"fin_stamp", "fin_select", "fin_summary", "teardown"}

\* C40: from the start of finalization until the adapter is closed, the receive loop
\* appends no turn to the transcript and hands no media event to the transport, so
\* the transcript written to the call record is the one summarize_call was given.
C40_FrozenSession ==
    [][InFinalization => (transcript' = transcript /\ media_sids' = media_sids)]_vars
====
